---- MODULE Spec2Model ----
(***************************************************************************)
(* A model of plotme (nluetts/plotme): the file entry state machine, the   *)
(* folder listing, CSV ingestion, the per-frame gesture controller and the *)
(* renderer.  Strings are sequences of one-character strings, numbers of   *)
(* the text fields are fixed-point with Decimals decimals.                 *)
(***************************************************************************)
EXTENDS Integers, Sequences, FiniteSets, TLC

VARIABLES
    folders,            \* App.folders: Seq(Folder)
    search_phrase,      \* App.search_phrase
    plot_dims,          \* App.plot_dims
    errors,             \* App.errors
    acceleration,       \* App.acceleration: <<>> (None) or <<a>> for Some(a)
    copied_csvoptions,  \* App.copied_csvoptions: <<>> or <<options>>
    color_idx,          \* egui temp data "color_idx"
    id_counter,         \* the id counter handed to get_file_entries
    listed,             \* labels shown by list_files_ui in the last frame
    lines,              \* lines handed to the plot widget in the last frame
    allow_drag,         \* allow_drag of the plot widget in the last frame
    plot_bounds,        \* the bounds the plot widget holds and reports
    session_file,       \* the session file on disk: <<>> or <<its text>>
    assigned,           \* the pairs <<entry id, colour index>> given so far
    exported,           \* the SVG file last written: <<>> or <<its series>>
    last                \* the input handled by the last frame

vars == <<folders, search_phrase, plot_dims, errors, acceleration,
          copied_csvoptions, color_idx, id_counter, listed, lines,
          allow_drag, plot_bounds, session_file, assigned, exported, last>>

----------------------------------------------------------------------------
(* Bounds of the model.                                                    *)

MaxFiles == 2
MaxLog == 1
MaxGestures == 2
MaxSessions == 2
MaxColors == 3
MaxSkip == 1
Decimals == 3

----------------------------------------------------------------------------
(* Option values and small helpers.                                        *)

None == <<>>
Some(v) == <<v>>
IsSome(o) == Len(o) = 1
Unwrap(o) == o[1]

Range(s) == {s[i] : i \in 1..Len(s)}


Abs(n) == IF n < 0 THEN -n ELSE n
Signum(n) == IF n < 0 THEN -1 ELSE 1

RECURSIVE Concat(_)
Concat(ss) == IF ss = <<>> THEN <<>> ELSE Head(ss) \o Concat(Tail(ss))

RECURSIVE SelectIdx(_, _, _)
\* the indices i of s, in order, for which keep[i]
SelectIdx(n, keep, i) ==
    IF i > n THEN <<>>
    ELSE (IF keep[i] THEN <<i>> ELSE <<>>) \o SelectIdx(n, keep, i + 1)

----------------------------------------------------------------------------
(* Strings: str::contains, str::split, parsing and formatting of numbers.  *)

Digits == <<"0", "1", "2", "3", "4", "5", "6", "7", "8", "9">>
IsDigit(c) == \E d \in 1..10 : Digits[d] = c
DigitVal(c) == (CHOOSE d \in 1..10 : Digits[d] = c) - 1

\* str::contains(sub)
Contains(s, sub) ==
    \E i \in 0..(Len(s) - Len(sub)) : SubSeq(s, i + 1, i + Len(sub)) = sub

RECURSIVE SplitAt(_, _, _)
\* str::split(sep) for a one-character separator; cur is the piece so far
SplitAt(s, sep, cur) ==
    IF s = <<>> THEN <<cur>>
    ELSE IF Head(s) = sep THEN <<cur>> \o SplitAt(Tail(s), sep, <<>>)
    ELSE SplitAt(Tail(s), sep, Append(cur, Head(s)))

Split(s, sep) == SplitAt(s, sep, <<>>)

RECURSIVE DigitsVal(_)
DigitsVal(s) == IF s = <<>> THEN 0 ELSE DigitsVal(SubSeq(s, 1, Len(s) - 1)) * 10
                                        + DigitVal(s[Len(s)])

AllDigits(s) == \A i \in 1..Len(s) : IsDigit(s[i])

\* numbers are fixed-point with Decimals decimals: v stands for v / Unit
Unit == 10 ^ Decimals

RECURSIVE PadZeros(_, _)
PadZeros(s, n) == IF Len(s) >= n THEN s ELSE PadZeros(Append(s, "0"), n)

\* the fraction digits of a decimal literal, in units (further digits are
\* below the resolution of the model)
FracVal(s) == DigitsVal(SubSeq(PadZeros(s, Decimals), 1, Decimals))

\* str::parse::<f64>() of an unsigned decimal literal: digits [ . digits ]
ParseUnsigned(s) ==
    LET dots == {i \in 1..Len(s) : s[i] = "."} IN
    IF dots = {} THEN
        IF s # <<>> /\ AllDigits(s) THEN Some(DigitsVal(s) * Unit) ELSE None
    ELSE IF Cardinality(dots) > 1 THEN None
    ELSE LET d == CHOOSE i \in dots : TRUE
             ip == SubSeq(s, 1, d - 1)
             fp == SubSeq(s, d + 1, Len(s))
         IN IF AllDigits(ip) /\ AllDigits(fp) /\ (ip \o fp) # <<>>
            THEN Some(DigitsVal(ip) * Unit + FracVal(fp))
            ELSE None

\* str::parse::<f64>(): None for Err
ParseFloat(s) ==
    IF s # <<>> /\ Head(s) = "-" THEN
        LET u == ParseUnsigned(Tail(s)) IN
        IF IsSome(u) THEN Some(0 - Unwrap(u)) ELSE None
    ELSE IF s # <<>> /\ Head(s) = "+" THEN ParseUnsigned(Tail(s))
    ELSE ParseUnsigned(s)

RECURSIVE NatDigits(_)
NatDigits(n) == IF n < 10 THEN <<Digits[n + 1]>>
                ELSE Append(NatDigits(n \div 10), Digits[(n % 10) + 1])

RECURSIVE StripZeros(_)
StripZeros(s) == IF s # <<>> /\ s[Len(s)] = "0"
                 THEN StripZeros(SubSeq(s, 1, Len(s) - 1)) ELSE s

RECURSIVE LeftPad(_, _)
LeftPad(s, n) == IF Len(s) >= n THEN s ELSE LeftPad(<<"0">> \o s, n)

\* format!("{}", v) of a float: shortest decimal form, no trailing ".0"
FormatFloat(v) ==
    LET a == Abs(v)
        ip == NatDigits(a \div Unit)
        fp == StripZeros(LeftPad(NatDigits(a % Unit), Decimals))
        body == IF fp = <<>> THEN ip ELSE ip \o <<".">> \o fp
    IN IF v < 0 THEN <<"-">> \o body ELSE body

\* v * num / den, rounded to the nearest unit
MulFrac(v, num, den) ==
    LET p == v * num
        q == (2 * Abs(p) + den) \div (2 * den)
    IN IF p < 0 THEN 0 - q ELSE q

----------------------------------------------------------------------------
(* CSV ingestion (csvfile.rs).  A file on disk is None when it cannot be   *)
(* opened, else Some(sequence of text lines).                              *)

\* one message of the error log; row is 0 where the text names no row
Msg(level, what, file, row) ==
    [level |-> level, what |-> what, file |-> file, row |-> row]

\* PathBuf of a file: its directory ("" for none) and its name
PathOf(dir, name) == [dir |-> dir, name |-> name]

\* impl Default for CSVFile
DefaultXcol == 1
DefaultYcol == 2
CSVFile_default ==
    [filepath |-> PathOf("", <<>>), data |-> <<>>, delimiter |-> ",",
     comment_char |-> "#", xcol |-> DefaultXcol, ycol |-> DefaultYcol,
     skip_header |-> 0, skip_footer |-> 0]

\* csv::ReaderBuilder::new().comment(..).delimiter(..) with records(): lines
\* starting with the comment byte and empty lines are skipped, the first
\* record is the header row and is not returned, a record whose number of
\* fields differs from the first record's is an Err
CsvRecords(text, delimiter, comment_char) ==
    LET IsRow(l) == l # <<>> /\ Head(l) # comment_char
        rows == SelectSeq(text, IsRow)
    IN IF rows = <<>> THEN <<>>
       ELSE [i \in 1..(Len(rows) - 1) |->
                LET f == Split(rows[i + 1], delimiter) IN
                [ok |-> Len(f) = Len(Split(rows[1], delimiter)), fields |-> f]]

\* entry.iter().nth(col).map(|x| x.parse::<f64>()): None, Some(Err) as
\* <<None>>, Some(Ok(v)) as <<Some(v)>>
NthParsed(fields, col) ==
    IF col < Len(fields) THEN Some(ParseFloat(fields[col + 1])) ELSE None

RECURSIVE parse_rows_from(_, _, _, _, _, _, _)
\* the loop of parse_rows from record i on; acc is [data, log]
parse_rows_from(rdr, i, xcol, ycol, filepath, data, error_log) ==
    IF i > Len(rdr) THEN [data |-> data, log |-> error_log]
    ELSE IF ~rdr[i].ok THEN
        parse_rows_from(rdr, i + 1, xcol, ycol, filepath, data,
                        Append(error_log, Msg("WARNING", "row", filepath, i)))
    ELSE
        LET x == NthParsed(rdr[i].fields, xcol)
            y == NthParsed(rdr[i].fields, ycol)
            okx == IsSome(x) /\ IsSome(Unwrap(x))
            oky == IsSome(y) /\ IsSome(Unwrap(y))
        IN IF okx /\ oky THEN
               parse_rows_from(rdr, i + 1, xcol, ycol, filepath,
                   Append(data, <<Unwrap(Unwrap(x)), Unwrap(Unwrap(y))>>),
                   error_log)
           ELSE IF okx /\ IsSome(y) THEN
               parse_rows_from(rdr, i + 1, xcol, ycol, filepath, data,
                   Append(error_log, Msg("WARNING", "ycol", filepath, i)))
           ELSE IF IsSome(x) /\ oky THEN
               parse_rows_from(rdr, i + 1, xcol, ycol, filepath, data,
                   Append(error_log, Msg("WARNING", "xcol", filepath, i)))
           ELSE
               parse_rows_from(rdr, i + 1, xcol, ycol, filepath, data,
                   Append(error_log, Msg("WARNING", "cols", filepath, i)))

\* parse_rows: [data, log]
parse_rows(rdr, xcol, ycol, filepath, error_log) ==
    parse_rows_from(rdr, 1, xcol, ycol, filepath, <<>>, error_log)

\* CSVFile::new on the file `file` found at filepath: [csvfile, log] with
\* csvfile None or Some(CSVFile)
\* the records without the first n
SkipRows(records, n) == SubSeq(records, n + 1, Len(records))

\* CSVFile::new, were it to leave out skip_header records
CSVFile_new_SkipsHeader(file, filepath, xcol, ycol, delimiter, comment_char, skip_header, skip_footer, error_log) ==
    IF ~IsSome(file) THEN
        [csvfile |-> None,
         log |-> Append(error_log, Msg("ERROR", "read", filepath, 0))]
    ELSE
        CHOOSE v \in
            {IF r.data = <<>> THEN [csvfile |-> None, log |-> r.log]
             ELSE [csvfile |-> Some([filepath |-> filepath, data |-> r.data,
                                     delimiter |-> delimiter,
                                     comment_char |-> comment_char,
                                     xcol |-> xcol, ycol |-> ycol,
                                     skip_header |-> skip_header,
                                     skip_footer |-> skip_footer]),
                   log |-> r.log] :
              r \in {parse_rows(SkipRows(CsvRecords(Unwrap(file), delimiter,
                                                    comment_char), skip_header),
                                xcol, ycol, filepath, error_log)}} : TRUE

CSVFile_new(file, filepath, xcol, ycol, delimiter, comment_char, skip_header, skip_footer, error_log) ==
    IF ~IsSome(file) THEN
        [csvfile |-> None,
         log |-> Append(error_log, Msg("ERROR", "read", filepath, 0))]
    ELSE
        CHOOSE v \in
            {IF r.data = <<>> THEN [csvfile |-> None, log |-> r.log]
             ELSE [csvfile |-> Some([filepath |-> filepath, data |-> r.data,
                                     delimiter |-> delimiter,
                                     comment_char |-> comment_char,
                                     xcol |-> xcol, ycol |-> ycol,
                                     skip_header |-> skip_header,
                                     skip_footer |-> skip_footer]),
                   log |-> r.log] :
              r \in {parse_rows(CsvRecords(Unwrap(file), delimiter, comment_char),
                                xcol, ycol, filepath, error_log)}} : TRUE

----------------------------------------------------------------------------
(* FileEntry (file_entry.rs).                                               *)

FileEntryState == {"Idle", "Plotted", "PreviouslyPlotted", "Active", "NeedsConfig"}

\* Color32::TRANSPARENT, and a colour as [a: alpha, hue: thousandths of a turn]
TRANSPARENT == [a |-> 0, hue |-> 0]

GoldenRatioPermille == 618
\* auto_color: Hsva::new(color_idx * golden_ratio, 0.85, 0.5, 1.0)
auto_color(idx) == [a |-> 255, hue |-> MulFrac(idx * Unit, GoldenRatioPermille, 1000) % Unit]

\* FloatInput::parse
FloatInput_parse(self) == ParseFloat(self.input)

\* FileEntry::should_be_listed
should_be_listed(self, phrase, folder_is_expanded) ==
    LET contains_search_phrase ==
            \A tok \in Range(Split(phrase, " ")) : Contains(self.filename, tok)
    IN IF contains_search_phrase /\ folder_is_expanded THEN TRUE
       ELSE IF self.state = "Idle" THEN FALSE
       ELSE TRUE

\* FileEntry::is_active
is_active(self) == self.state = "Active"

\* FileEntry::set_active
set_active(self) == [self EXCEPT !.state = "Active"]

\* FileEntry::is_plotted
is_plotted(self) == self.state \in {"Plotted", "Active", "NeedsConfig"}

\* FileEntry::was_just_plotted: both arms of the match are true
was_just_plotted(self) ==
    IF self.state \in {"Idle", "Plotted", "Active", "NeedsConfig"} THEN TRUE
    ELSE TRUE

\* the CSVFile::new call shared by reload_csv, clicked and list_files_ui:
\* ingestion of `file` with the entry's current parameters
Ingest(self, file, folder_path, error_log) ==
    CSVFile_new(file, PathOf(folder_path, self.filename),
                self.data_file.xcol, self.data_file.ycol,
                self.data_file.delimiter, self.data_file.comment_char,
                self.data_file.skip_header, self.data_file.skip_footer,
                error_log)

\* a reload, were a failed re-ingestion to mark the entry NeedsConfig
reload_csv_FailureMarks(self, file, folder_path, error_log) ==
    CHOOSE v \in
        {IF IsSome(r.csvfile)
         THEN [entry |-> [self EXCEPT !.data_file = Unwrap(r.csvfile)],
               log |-> r.log]
         ELSE [entry |-> [self EXCEPT !.state = "NeedsConfig"], log |-> r.log] :
          r \in {Ingest(self, file, folder_path, error_log)}} : TRUE

\* FileEntry::reload_csv: [entry, log]
\* reload_csv, were a failed reload to drop the data the entry holds
reload_csv_FailureClears(self, file, folder_path, error_log) ==
    CHOOSE v \in
        {IF IsSome(r.csvfile)
         THEN [entry |-> [self EXCEPT !.data_file = Unwrap(r.csvfile)],
               log |-> r.log]
         ELSE [entry |-> [self EXCEPT !.data_file.data = <<>>], log |-> r.log] :
          r \in {Ingest(self, file, folder_path, error_log)}} : TRUE

reload_csv(self, file, folder_path, error_log) ==
    CHOOSE v \in
        {IF IsSome(r.csvfile)
         THEN [entry |-> [self EXCEPT !.data_file = Unwrap(r.csvfile)],
               log |-> r.log]
         ELSE [entry |-> self, log |-> r.log] :
          r \in {Ingest(self, file, folder_path, error_log)}} : TRUE

\* the state-only branch of a primary click
ToggleState(state) ==
    CASE state \in {"Active", "Plotted"} -> "PreviouslyPlotted"
      [] state \in {"Idle", "PreviouslyPlotted"} -> "Plotted"
      [] state = "NeedsConfig" -> "Idle"

\* FileEntry::clicked: [entry, log]
\* FileEntry::clicked, were it to read the file whenever the data is empty
clicked_Rereads(self, file, path, error_log) ==
    IF self.data_file.data = <<>> THEN
        CHOOSE v \in
            {IF IsSome(r.csvfile)
             THEN [entry |-> [self EXCEPT !.state = "Plotted",
                                          !.data_file = Unwrap(r.csvfile)],
                   log |-> r.log]
             ELSE [entry |-> [self EXCEPT !.state = "NeedsConfig"],
                   log |-> r.log] :
              r \in {Ingest(self, file, path, error_log)}} : TRUE
    ELSE [entry |-> [self EXCEPT !.state = ToggleState(self.state)],
          log |-> error_log]

clicked(self, file, path, error_log) ==
    IF self.data_file.data = <<>> /\ self.state # "NeedsConfig" THEN
        CHOOSE v \in
            {IF IsSome(r.csvfile)
             THEN [entry |-> [self EXCEPT !.state = "Plotted",
                                          !.data_file = Unwrap(r.csvfile)],
                   log |-> r.log]
             ELSE [entry |-> [self EXCEPT !.state = "NeedsConfig"],
                   log |-> r.log] :
              r \in {Ingest(self, file, path, error_log)}} : TRUE
    ELSE [entry |-> [self EXCEPT !.state = ToggleState(self.state)],
          log |-> error_log]

\* FileEntry::secondary_clicked
secondary_clicked(self) ==
    CASE self.state = "Plotted" -> [self EXCEPT !.state = "Active"]
      [] self.state = "Active" -> [self EXCEPT !.state = "Plotted"]
      [] OTHER -> self

\* FileEntry::search_phrase_changed
search_phrase_changed(self) ==
    [self EXCEPT !.state =
        CASE self.state = "PreviouslyPlotted" -> "Idle"
          [] self.state = "Idle" -> "Idle"
          [] self.state = "Plotted" -> "Plotted"
          [] self.state = "Active" -> "Active"
          [] self.state = "NeedsConfig" -> "NeedsConfig"]

\* read_first_lines(path, num_lines).unwrap_or_default(): the first lines,
\* pushed one after the other
PreviewLines == 20
read_first_lines(file, num_lines) ==
    IF ~IsSome(file) THEN <<>>
    ELSE LET t == Unwrap(file)
             n == IF Len(t) < num_lines THEN Len(t) ELSE num_lines
         IN Concat(SubSeq(t, 1, n))

\* get_file_entries: the entries of the directory listing `names`, whose
\* files read as files[i]; ids count up from id_counter
get_file_entries(names, files, id_counter0) ==
    [i \in 1..Len(names) |->
        [filename |-> names[i],
         data_file |-> [CSVFile_default EXCEPT !.filepath = PathOf("", names[i])],
         state |-> "Idle",
         scale |-> [input |-> <<"1", ".", "0">>],
         offset |-> [input |-> <<"0", ".", "0">>],
         xoffset |-> [input |-> <<"0", ".", "0">>],
         color |-> TRANSPARENT,
         id |-> id_counter0 + i - 1,
         preview |-> read_first_lines(files[i], PreviewLines)]]

----------------------------------------------------------------------------
(* Folder (folder.rs).  The pointer input of a frame on the file tree is   *)
(* ui = [kind, fi, ei, file]: kind "none", "x" (delete button of folder    *)
(* fi), "label" (label of folder fi), "primary" or "secondary" (click on   *)
(* the label of entry ei of folder fi); file is what the disk holds for    *)
(* the clicked entry.                                                      *)

\* the listing condition, were it the filter and the expansion alone
LabelShown_FilterOnly(self, file_entry, phrase) ==
    \A tok \in Range(Split(phrase, " ")) :
        Contains(file_entry.filename, tok) /\ self.expanded

\* the condition under which list_files_ui shows the label of an entry
LabelShown(self, file_entry, phrase) ==
    \/ \A tok \in Range(Split(phrase, " ")) :
           Contains(file_entry.filename, tok) /\ self.expanded
    \/ is_plotted(file_entry)
    \/ (was_just_plotted(file_entry) /\ self.expanded)

\* the primary click handling, were an ingestion that returns nothing to
\* land in Plotted
InlineClicked_NoneToPlotted(self, file_entry, file, error_log) ==
    IF file_entry.data_file.data = <<>> /\ file_entry.state # "NeedsConfig" THEN
        CHOOSE v \in
            {IF IsSome(r.csvfile)
             THEN [entry |-> [file_entry EXCEPT !.state = "Plotted",
                                                !.data_file = Unwrap(r.csvfile)],
                   log |-> r.log]
             ELSE [entry |-> [file_entry EXCEPT !.state = "Plotted"],
                   log |-> r.log] :
              r \in {Ingest(file_entry, file, self.path, error_log)}} : TRUE
    ELSE [entry |-> [file_entry EXCEPT !.state =
                        CASE file_entry.state \in {"Active", "Plotted"} ->
                                 "PreviouslyPlotted"
                          [] file_entry.state \in {"Idle", "PreviouslyPlotted"} ->
                                 "Plotted"
                          [] file_entry.state = "NeedsConfig" -> "Idle"],
          log |-> error_log]

\* the primary click handling, were a click on a plotted entry to take it
\* to Idle
InlineClicked_PlottedToIdle(self, file_entry, file, error_log) ==
    IF file_entry.data_file.data = <<>> /\ file_entry.state # "NeedsConfig" THEN
        CHOOSE v \in
            {IF IsSome(r.csvfile)
             THEN [entry |-> [file_entry EXCEPT !.state = "Plotted",
                                                !.data_file = Unwrap(r.csvfile)],
                   log |-> r.log]
             ELSE [entry |-> [file_entry EXCEPT !.state = "NeedsConfig"],
                   log |-> r.log] :
              r \in {Ingest(file_entry, file, self.path, error_log)}} : TRUE
    ELSE [entry |-> [file_entry EXCEPT !.state =
                        CASE file_entry.state \in {"Active", "Plotted"} -> "Idle"
                          [] file_entry.state \in {"Idle", "PreviouslyPlotted"} ->
                                 "Plotted"
                          [] file_entry.state = "NeedsConfig" -> "Idle"],
          log |-> error_log]

\* the primary click handling written inline in list_files_ui: [entry, log]
\* the inline click, were it to read the file of every entry that is off
InlineClicked_ReadsWhenOff(self, file_entry, file, error_log) ==
    IF file_entry.state \in {"Idle", "PreviouslyPlotted"} THEN
        CHOOSE v \in
            {IF IsSome(r.csvfile)
             THEN [entry |-> [file_entry EXCEPT !.state = "Plotted",
                                                !.data_file = Unwrap(r.csvfile)],
                   log |-> r.log]
             ELSE [entry |-> [file_entry EXCEPT !.state = "NeedsConfig"],
                   log |-> r.log] :
              r \in {Ingest(file_entry, file, self.path, error_log)}} : TRUE
    ELSE [entry |-> [file_entry EXCEPT !.state =
                        CASE file_entry.state \in {"Active", "Plotted"} ->
                                 "PreviouslyPlotted"
                          [] file_entry.state \in {"Idle", "PreviouslyPlotted"} ->
                                 "Plotted"
                          [] file_entry.state = "NeedsConfig" -> "Idle"],
          log |-> error_log]

\* the inline click, were it to plot an entry in NeedsConfig at once
InlineClicked_NeedsConfigToPlotted(self, file_entry, file, error_log) ==
    IF file_entry.data_file.data = <<>> /\ file_entry.state # "NeedsConfig" THEN
        CHOOSE v \in
            {IF IsSome(r.csvfile)
             THEN [entry |-> [file_entry EXCEPT !.state = "Plotted",
                                                !.data_file = Unwrap(r.csvfile)],
                   log |-> r.log]
             ELSE [entry |-> [file_entry EXCEPT !.state = "NeedsConfig"],
                   log |-> r.log] :
              r \in {Ingest(file_entry, file, self.path, error_log)}} : TRUE
    ELSE [entry |-> [file_entry EXCEPT !.state =
                        CASE file_entry.state \in {"Active", "Plotted"} ->
                                 "PreviouslyPlotted"
                          [] file_entry.state \in {"Idle", "PreviouslyPlotted"} ->
                                 "Plotted"
                          [] file_entry.state = "NeedsConfig" -> "Plotted"],
          log |-> error_log]

InlineClicked(self, file_entry, file, error_log) ==
    IF file_entry.data_file.data = <<>> /\ file_entry.state # "NeedsConfig" THEN
        CHOOSE v \in
            {IF IsSome(r.csvfile)
             THEN [entry |-> [file_entry EXCEPT !.state = "Plotted",
                                                !.data_file = Unwrap(r.csvfile)],
                   log |-> r.log]
             ELSE [entry |-> [file_entry EXCEPT !.state = "NeedsConfig"],
                   log |-> r.log] :
              r \in {Ingest(file_entry, file, self.path, error_log)}} : TRUE
    ELSE [entry |-> [file_entry EXCEPT !.state =
                        CASE file_entry.state \in {"Active", "Plotted"} ->
                                 "PreviouslyPlotted"
                          [] file_entry.state \in {"Idle", "PreviouslyPlotted"} ->
                                 "Plotted"
                          [] file_entry.state = "NeedsConfig" -> "Idle"],
          log |-> error_log]

\* the secondary click handling, were it to activate a previously plotted
\* entry too
InlineSecondaryClicked_Revives(file_entry) ==
    CASE file_entry.state \in {"Plotted", "PreviouslyPlotted"} ->
             [file_entry EXCEPT !.state = "Active"]
      [] file_entry.state = "Active" -> [file_entry EXCEPT !.state = "Plotted"]
      [] OTHER -> file_entry

\* the secondary click handling written inline in list_files_ui
InlineSecondaryClicked(file_entry) ==
    CASE file_entry.state = "Plotted" -> [file_entry EXCEPT !.state = "Active"]
      [] file_entry.state = "Active" -> [file_entry EXCEPT !.state = "Plotted"]
      [] OTHER -> file_entry

\* Folder::list_files_ui for folder number fi: [folder, log, shown]; the
\* loop changes the clicked entry alone and the log through it alone
list_files_ui(self, fi, phrase, error_log, ui) ==
    CHOOSE v \in
        {IF ui.fi = fi /\ ui.ei \in shown /\ ui.kind \in {"primary", "secondary"}
         THEN CHOOSE w \in
                 {[folder |-> [self EXCEPT !.files[ui.ei] = r.entry],
                   log |-> r.log, shown |-> {<<fi, i>> : i \in shown}] :
                   r \in {IF ui.kind = "primary"
                          THEN InlineClicked(self, self.files[ui.ei], ui.file,
                                             error_log)
                          ELSE [entry |-> InlineSecondaryClicked(self.files[ui.ei]),
                                log |-> error_log]}} : TRUE
         ELSE [folder |-> self, log |-> error_log,
               shown |-> {<<fi, i>> : i \in shown}] :
          shown \in {{j \in 1..Len(self.files) :
                         LabelShown(self, self.files[j], phrase)}}} : TRUE

----------------------------------------------------------------------------
(* App (app.rs, plot.rs).  The App value is the record                     *)
(* [folders, search_phrase, plot_dims, errors, acceleration,               *)
(*  copied_csvoptions].                                                    *)

App == [folders |-> folders, search_phrase |-> search_phrase,
        plot_dims |-> plot_dims, errors |-> errors,
        acceleration |-> acceleration,
        copied_csvoptions |-> copied_csvoptions]

\* impl Default for PlotDimensions
PlotDimensions_default == [x0 |-> 0, x1 |-> 0, y0 |-> 0, y1 |-> 0]

\* PlotDimensions::xspan, PlotDimensions::yspan
xspan(self) == Abs(self.x1 - self.x0)
yspan(self) == Abs(self.y1 - self.y0)

RECURSIVE FlatFrom(_, _)
\* the positions <<folder, entry>> of folders.iter().flat_map(files), from
\* folder i on
FlatFrom(fs, i) ==
    IF i > Len(fs) THEN <<>>
    ELSE [j \in 1..Len(fs[i].files) |-> <<i, j>>] \o FlatFrom(fs, i + 1)

Flat(fs) == FlatFrom(fs, 1)
Entry(fs, pos) == fs[pos[1]].files[pos[2]]
Entries(fs) == {Entry(fs, pos) : pos \in Range(Flat(fs))}

\* only retain the last 10 errors
LogCap == 10

\* the cut of the log, were it to keep the first 10 messages
RetainLast_First(log) ==
    IF Len(log) > LogCap THEN SubSeq(log, 1, LogCap) ELSE log

RetainLast(log) ==
    IF Len(log) > LogCap THEN SubSeq(log, Len(log) - LogCap + 1, Len(log)) ELSE log

RECURSIVE list_folders_from(_, _, _, _, _, _)
\* the loop of App::list_folders from folder i on: [folders, log, shown]
list_folders_from(fs, i, phrase, log, shown, ui) ==
    IF i > Len(fs) THEN [folders |-> fs, log |-> log, shown |-> shown]
    ELSE
        CHOOSE v \in
            {list_folders_from([fs EXCEPT ![i] = r.folder], i + 1, phrase,
                               r.log, shown \cup r.shown, ui) :
              r \in {list_files_ui(
                        [fs[i] EXCEPT
                            !.to_be_deleted = IF ui.kind = "x" /\ ui.fi = i
                                              THEN TRUE ELSE @,
                            !.expanded = IF ui.kind = "label" /\ ui.fi = i
                                         THEN ~@ ELSE @],
                        i, phrase, log, ui)}} : TRUE

\* App::list_folders
list_folders(fs, phrase, log, ui) ==
    list_folders_from(fs, 1, phrase, log, {}, ui)

\* App::delete_folders
\* the purge, were it to drop the first folder whenever one is marked
delete_folders_DropsFirst(fs) ==
    IF \E i \in 1..Len(fs) : fs[i].to_be_deleted THEN Tail(fs) ELSE fs

delete_folders(fs) ==
    LET Keep(f) == ~f.to_be_deleted IN SelectSeq(fs, Keep)

RECURSIVE OpenFrom(_, _, _, _)
\* the loop of "Open Folder" over the picked directories from number k on;
\* a picked directory is [path, names, files]: [folders, id_counter]
OpenFrom(fs, idc, picked, k) ==
    IF k > Len(picked) THEN [folders |-> fs, id_counter |-> idc]
    ELSE OpenFrom(Append(fs, [path |-> picked[k].path,
                              files |-> get_file_entries(picked[k].names,
                                                         picked[k].files, idc),
                              expanded |-> TRUE,
                              to_be_deleted |-> FALSE]),
                  idc + Len(picked[k].names), picked, k + 1)

\* the release, were it to take every entry that is not Active to Idle
ReleasePreviouslyPlotted_AllButActive(fs) ==
    [i \in 1..Len(fs) |->
        [fs[i] EXCEPT !.files =
            [j \in 1..Len(fs[i].files) |->
                IF fs[i].files[j].state # "Active"
                THEN [fs[i].files[j] EXCEPT !.state = "Idle"]
                ELSE fs[i].files[j]]]]

\* the release of previously plotted entries when the filter has changed
ReleasePreviouslyPlotted(fs) ==
    [i \in 1..Len(fs) |->
        [fs[i] EXCEPT !.files =
            [j \in 1..Len(fs[i].files) |->
                IF fs[i].files[j].state = "PreviouslyPlotted"
                THEN [fs[i].files[j] EXCEPT !.state = "Idle"]
                ELSE fs[i].files[j]]]]

\* App::file_tree_ui with the frame's input tin = [open, picked, phrase, ui]:
\* open is "Open Folder" clicked, picked the directories chosen, phrase the
\* text of the filter field after this frame's edits: [app, id_counter, shown]
file_tree_ui(app, idc, tin) ==
    CHOOSE v \in
        {IF Len(o.folders) = 0 THEN
             [app |-> [app EXCEPT !.folders = o.folders],
              id_counter |-> o.id_counter, shown |-> {}]
         ELSE
             CHOOSE w \in
                 {[app |-> [app EXCEPT !.folders = delete_folders(r.folders),
                                       !.search_phrase = tin.phrase,
                                       !.errors = r.log],
                   id_counter |-> o.id_counter, shown |-> r.shown] :
                   r \in {list_folders(IF app.search_phrase # tin.phrase
                                       THEN ReleasePreviouslyPlotted(o.folders)
                                       ELSE o.folders,
                                       tin.phrase, app.errors, tin.ui)}} : TRUE :
          o \in {IF tin.open THEN OpenFrom(app.folders, idc, tin.picked, 1)
                 ELSE [folders |-> app.folders, id_counter |-> idc]}} : TRUE

\* the six ingestion parameters of opts written to the CSVFile data_file
WithOptions(data_file, opts) ==
    [data_file EXCEPT !.xcol = opts.xcol, !.ycol = opts.ycol,
                      !.skip_header = opts.skip_header,
                      !.skip_footer = opts.skip_footer,
                      !.delimiter = opts.delimiter,
                      !.comment_char = opts.comment_char]

\* file_settings_menu for one entry with input sin: kind "options" sets the
\* CSV options sin.options through the edit fields, "copy" and "paste" are
\* the buttons "Copy Options" and "Paste Options", "text" types sin.text
\* into the text field sin.field, "reload" is the button "Reload CSV" while
\* the disk holds sin.file, "color" picks sin.color in the colour picker:
\* [entry, csv_options, log]
file_settings_menu(file_entry, folder_path, csv_options, error_log, sin) ==
    CASE sin.kind = "options" ->
             [entry |-> [file_entry EXCEPT
                            !.data_file = WithOptions(@, sin.options)],
              csv_options |-> csv_options, log |-> error_log]
      [] sin.kind = "copy" ->
             [entry |-> file_entry,
              csv_options |-> Some(WithOptions(CSVFile_default,
                                               file_entry.data_file)),
              log |-> error_log]
      [] sin.kind = "paste" ->
             [entry |-> IF IsSome(csv_options)
                        THEN [file_entry EXCEPT
                                 !.data_file = WithOptions(@, Unwrap(csv_options))]
                        ELSE file_entry,
              csv_options |-> csv_options, log |-> error_log]
      [] sin.kind = "text" ->
             [entry |-> CASE sin.field = "scale" ->
                                 [file_entry EXCEPT !.scale.input = sin.text]
                          [] sin.field = "offset" ->
                                 [file_entry EXCEPT !.offset.input = sin.text]
                          [] sin.field = "xoffset" ->
                                 [file_entry EXCEPT !.xoffset.input = sin.text],
              csv_options |-> csv_options, log |-> error_log]
      [] sin.kind = "reload" ->
             CHOOSE v \in
                 {[entry |-> r.entry, csv_options |-> csv_options, log |-> r.log] :
                   r \in {reload_csv(file_entry, sin.file, folder_path,
                                     error_log)}} : TRUE
      [] sin.kind = "color" ->
             [entry |-> [file_entry EXCEPT !.color = sin.color],
              csv_options |-> csv_options, log |-> error_log]
      [] OTHER -> [entry |-> file_entry, csv_options |-> csv_options,
                   log |-> error_log]

\* the menu "File Settings" of App::menu with the input on the entry at
\* position <<sin.fi, sin.ei>>; only plotted entries have a settings menu
settings_menu(app, sin) ==
    IF /\ sin.fi \in 1..Len(app.folders)
       /\ sin.ei \in 1..Len(app.folders[sin.fi].files)
       /\ is_plotted(app.folders[sin.fi].files[sin.ei])
    THEN CHOOSE v \in
             {[app EXCEPT !.folders[sin.fi].files[sin.ei] = r.entry,
                          !.copied_csvoptions = r.csv_options,
                          !.errors = r.log] :
               r \in {file_settings_menu(app.folders[sin.fi].files[sin.ei],
                                         app.folders[sin.fi].path,
                                         app.copied_csvoptions, app.errors,
                                         sin)}} : TRUE
    ELSE app

\* a float as serde_json writes it and reads it back
JsonNumber(v) == FormatFloat(v)
ReadNumber(t) == Unwrap(ParseFloat(t))

\* serde_json::to_string(&App): the fields marked #[serde(skip)] are left out
to_string(app) ==
    [folders |->
        [i \in 1..Len(app.folders) |->
            [app.folders[i] EXCEPT !.files =
                [j \in 1..Len(app.folders[i].files) |->
                    [app.folders[i].files[j] EXCEPT !.data_file.data =
                        [k \in 1..Len(app.folders[i].files[j].data_file.data) |->
                            <<JsonNumber(app.folders[i].files[j].data_file.data[k][1]),
                              JsonNumber(app.folders[i].files[j].data_file.data[k][2])>>]]]]],
     search_phrase |-> app.search_phrase,
     plot_dims |-> [x0 |-> JsonNumber(app.plot_dims.x0),
                    x1 |-> JsonNumber(app.plot_dims.x1),
                    y0 |-> JsonNumber(app.plot_dims.y0),
                    y1 |-> JsonNumber(app.plot_dims.y1)]]

\* serde_json::from_str::<App>: skipped fields take their defaults
from_str(json) ==
    [folders |->
        [i \in 1..Len(json.folders) |->
            [json.folders[i] EXCEPT !.files =
                [j \in 1..Len(json.folders[i].files) |->
                    [json.folders[i].files[j] EXCEPT !.data_file.data =
                        [k \in 1..Len(json.folders[i].files[j].data_file.data) |->
                            <<ReadNumber(json.folders[i].files[j].data_file.data[k][1]),
                              ReadNumber(json.folders[i].files[j].data_file.data[k][2])>>]]]]],
     search_phrase |-> json.search_phrase,
     plot_dims |-> [x0 |-> ReadNumber(json.plot_dims.x0),
                    x1 |-> ReadNumber(json.plot_dims.x1),
                    y0 |-> ReadNumber(json.plot_dims.y0),
                    y1 |-> ReadNumber(json.plot_dims.y1)],
     errors |-> <<>>, acceleration |-> None, copied_csvoptions |-> None]

\* App::load_state(None) while HOME is set or not and the session file
\* reads as file: [app, err] with err None for Ok(())
load_state(self, home, file) ==
    IF ~home
    THEN [app |-> self,
          err |-> Some(Msg("ERROR", "config path", PathOf("", <<>>), 0))]
    ELSE IF ~IsSome(file)
    THEN [app |-> self,
          err |-> Some(Msg("", "config read", PathOf("", <<>>), 0))]
    ELSE [app |-> from_str(Unwrap(file)), err |-> None]

\* App::save_state(None) while HOME is set or not and the file can be
\* written or not: what the session file holds afterwards
save_state(self, home, writable, file) ==
    IF home /\ writable THEN Some(to_string(self)) ELSE file

----------------------------------------------------------------------------
(* The central panel: acceleration, gestures and the plot.  The pointer    *)
(* and key input of a frame is ptr = [pressed, down, d, f, g, dx, dy]:     *)
(* primary_pressed, primary_down, key_down of D, F and G, the sign of the  *)
(* pointer delta.  bounds is what the plot widget reports as its bounds.   *)

AccelPercent == 103
ScalePermille == 10
OffsetPermille == 1

\* the update of the acceleration, were a press to set it only when it is
\* None
Accelerate_NoReset(acc, ptr) ==
    LET a1 == IF ptr.pressed /\ ~IsSome(acc) THEN Some(Unit) ELSE acc
    IN IF ptr.down /\ IsSome(a1)
       THEN Some(MulFrac(Unwrap(a1), AccelPercent, 100)) ELSE a1

\* the update of App.acceleration inside ctx.input
Accelerate(acc, ptr) ==
    LET a1 == IF ptr.pressed THEN Some(Unit) ELSE acc
    IN IF ptr.down /\ IsSome(a1)
       THEN Some(MulFrac(Unwrap(a1), AccelPercent, 100)) ELSE a1

\* self.acceleration.unwrap_or(1.0)
AccelOr1(acc) == IF IsSome(acc) THEN Unwrap(acc) ELSE Unit

\* the scale text, were the formula to add the step instead of subtracting it
ScaledText_Adds(file_entry, acc, dy) ==
    LET p == FloatInput_parse(file_entry.scale) IN
    IF IsSome(p)
    THEN [file_entry EXCEPT !.scale.input =
            FormatFloat(Unwrap(p) + Signum(dy)
                * MulFrac(MulFrac(Unwrap(p), ScalePermille, 1000),
                          AccelOr1(acc), Unit))]
    ELSE file_entry

\* the scale text, were a text that is no number reset to the default
ScaledText_Resets(file_entry, acc, dy) ==
    LET p == FloatInput_parse(file_entry.scale) IN
    IF IsSome(p)
    THEN [file_entry EXCEPT !.scale.input =
            FormatFloat(Unwrap(p) - Signum(dy)
                * MulFrac(MulFrac(Unwrap(p), ScalePermille, 1000),
                          AccelOr1(acc), Unit))]
    ELSE [file_entry EXCEPT !.scale.input = <<"1", ".", "0">>]

\* scale - mouse_delta.y.signum() * scale * 0.01 * acceleration, formatted
ScaledText(file_entry, acc, dy) ==
    LET p == FloatInput_parse(file_entry.scale) IN
    IF IsSome(p)
    THEN [file_entry EXCEPT !.scale.input =
            FormatFloat(Unwrap(p) - Signum(dy)
                * MulFrac(MulFrac(Unwrap(p), ScalePermille, 1000),
                          AccelOr1(acc), Unit))]
    ELSE file_entry

\* offset - mouse_delta.y.signum() * span * 0.001 * acceleration, formatted
OffsetText(file_entry, acc, span, dy) ==
    LET p == FloatInput_parse(file_entry.offset) IN
    IF IsSome(p)
    THEN [file_entry EXCEPT !.offset.input =
            FormatFloat(Unwrap(p) - Signum(dy)
                * MulFrac(MulFrac(span, OffsetPermille, 1000),
                          AccelOr1(acc), Unit))]
    ELSE file_entry

\* xoffset + mouse_delta.x.signum() * span * 0.001 * acceleration, formatted
XoffsetText(file_entry, acc, span, dx) ==
    LET p == FloatInput_parse(file_entry.xoffset) IN
    IF IsSome(p)
    THEN [file_entry EXCEPT !.xoffset.input =
            FormatFloat(Unwrap(p) + Signum(dx)
                * MulFrac(MulFrac(span, OffsetPermille, 1000),
                          AccelOr1(acc), Unit))]
    ELSE file_entry

\* the gesture loops of App::update (app.rs) on one entry
Update_scale(file_entry, acc, dy) ==
    IF file_entry.state # "Active" THEN file_entry
    ELSE ScaledText(file_entry, acc, dy)

Update_offset(file_entry, acc, span, dy) ==
    IF file_entry.state # "Active" THEN file_entry
    ELSE OffsetText(file_entry, acc, span, dy)

Update_xoffset(file_entry, acc, span, dx) ==
    IF file_entry.state # "Active" THEN file_entry
    ELSE XoffsetText(file_entry, acc, span, dx)

\* the gesture loops of App::plot_panel_ui (plot.rs) on one entry
PlotPanel_scale(file_entry, acc, dy) ==
    IF ~is_active(file_entry) THEN file_entry
    ELSE ScaledText(file_entry, acc, dy)

PlotPanel_offset(file_entry, acc, span, dy) ==
    IF is_active(file_entry) THEN file_entry
    ELSE OffsetText(file_entry, acc, span, dy)

PlotPanel_xoffset(file_entry, acc, span, dx) ==
    IF is_active(file_entry) THEN file_entry
    ELSE XoffsetText(file_entry, acc, span, dx)

\* d_down, f_down, g_down of a frame
DDown(ptr) == ptr.d /\ ptr.down
FDown(ptr) == ptr.f /\ ptr.down
GDown(ptr) == ptr.g /\ ptr.down

\* the three gestures of App::update, were the scale gesture not to ask for
\* the D key to be up
Update_gestures_ScaleWithD(fs, acc, dims, ptr) ==
    CHOOSE v \in
        {IF GDown(ptr) /\ ptr.dx # 0
         THEN [i \in 1..Len(f2) |-> [f2[i] EXCEPT !.files =
                 [j \in 1..Len(f2[i].files) |->
                     Update_xoffset(f2[i].files[j], acc, xspan(dims), ptr.dx)]]]
         ELSE f2 :
          f2 \in {IF DDown(ptr) /\ ~FDown(ptr) /\ ptr.dy # 0
                  THEN [i \in 1..Len(f1) |-> [f1[i] EXCEPT !.files =
                          [j \in 1..Len(f1[i].files) |->
                              Update_offset(f1[i].files[j], acc, yspan(dims),
                                        ptr.dy)]]]
                  ELSE f1 :
            f1 \in {IF FDown(ptr) /\ ptr.dy # 0
                    THEN [i \in 1..Len(fs) |-> [fs[i] EXCEPT !.files =
                            [j \in 1..Len(fs[i].files) |->
                                Update_scale(fs[i].files[j], acc, ptr.dy)]]]
                    ELSE fs}}} : TRUE

\* the three gestures of App::update on all folders
Update_gestures(fs, acc, dims, ptr) ==
    CHOOSE v \in
        {IF GDown(ptr) /\ ptr.dx # 0
         THEN [i \in 1..Len(f2) |-> [f2[i] EXCEPT !.files =
                 [j \in 1..Len(f2[i].files) |->
                     Update_xoffset(f2[i].files[j], acc, xspan(dims), ptr.dx)]]]
         ELSE f2 :
          f2 \in {IF DDown(ptr) /\ ~FDown(ptr) /\ ptr.dy # 0
                  THEN [i \in 1..Len(f1) |-> [f1[i] EXCEPT !.files =
                          [j \in 1..Len(f1[i].files) |->
                              Update_offset(f1[i].files[j], acc, yspan(dims),
                                        ptr.dy)]]]
                  ELSE f1 :
            f1 \in {IF ~DDown(ptr) /\ FDown(ptr) /\ ptr.dy # 0
                    THEN [i \in 1..Len(fs) |-> [fs[i] EXCEPT !.files =
                            [j \in 1..Len(fs[i].files) |->
                                Update_scale(fs[i].files[j], acc, ptr.dy)]]]
                    ELSE fs}}} : TRUE

\* the three gestures of App::plot_panel_ui on all folders
PlotPanel_gestures(fs, acc, dims, ptr) ==
    CHOOSE v \in
        {IF GDown(ptr) /\ ptr.dx # 0
         THEN [i \in 1..Len(f2) |-> [f2[i] EXCEPT !.files =
                 [j \in 1..Len(f2[i].files) |->
                     PlotPanel_xoffset(f2[i].files[j], acc, xspan(dims), ptr.dx)]]]
         ELSE f2 :
          f2 \in {IF DDown(ptr) /\ ~FDown(ptr) /\ ptr.dy # 0
                  THEN [i \in 1..Len(f1) |-> [f1[i] EXCEPT !.files =
                          [j \in 1..Len(f1[i].files) |->
                              PlotPanel_offset(f1[i].files[j], acc, yspan(dims),
                                        ptr.dy)]]]
                  ELSE f1 :
            f1 \in {IF ~DDown(ptr) /\ FDown(ptr) /\ ptr.dy # 0
                    THEN [i \in 1..Len(fs) |-> [fs[i] EXCEPT !.files =
                            [j \in 1..Len(fs[i].files) |->
                                PlotPanel_scale(fs[i].files[j], acc, ptr.dy)]]]
                    ELSE fs}}} : TRUE

\* file_entry.<field>.parse().unwrap_or(default)
ParseOr(input, default) ==
    LET p == FloatInput_parse(input) IN IF IsSome(p) THEN Unwrap(p) ELSE default

\* the points of the line of an entry: [x + xoffset, y * scale + offset]
DisplayedPoints(file_entry) ==
    LET scale == ParseOr(file_entry.scale, Unit)
        offset == ParseOr(file_entry.offset, 0)
        xoffset == ParseOr(file_entry.xoffset, 0)
        d == file_entry.data_file.data
    IN [k \in 1..Len(d) |->
            <<d[k][1] + xoffset, MulFrac(d[k][2], scale, Unit) + offset>>]

\* the entries the plot loop draws: it skips those with !is_plotted()
Drawn(file_entry) == is_plotted(file_entry)

\* the number of entries at positions 1..k of flat that the loop gives a
\* colour: those drawn whose colour is TRANSPARENT
FreshUpTo(fs, flat, k) ==
    Cardinality({j \in 1..k : /\ Drawn(Entry(fs, flat[j]))
                              /\ Entry(fs, flat[j]).color = TRANSPARENT})

\* the entry at position k of flat after the plot loop: a drawn entry without
\* colour gets auto_color of the incremented running colour index
Colored(fs, flat, k, cidx) ==
    LET e == Entry(fs, flat[k]) IN
    IF Drawn(e) /\ e.color = TRANSPARENT
    THEN [e EXCEPT !.color = auto_color(cidx + FreshUpTo(fs, flat, k))]
    ELSE e

\* the line the plot loop draws for the entry at position pos; colored and
\* idx record whether the loop gave the entry a colour, and of which index
LineOf(fs, pos, e2, idx) ==
    [pos |-> pos, color |-> e2.color, highlight |-> is_active(e2),
     points |-> DisplayedPoints(e2),
     colored |-> Entry(fs, pos).color = TRANSPARENT,
     idx |-> IF Entry(fs, pos).color = TRANSPARENT THEN idx ELSE 0]

\* the loop in the plot closure, were it to read the running colour index
\* without storing the incremented value
PlotLoop_KeepsIndex(fs, cidx) ==
    LET flat == Flat(fs)
        IsDrawn(k) == Drawn(Entry(fs, flat[k]))
        AtFolder(i) == {k \in 1..Len(flat) : flat[k][1] = i}
        At(i, j) == CHOOSE k \in 1..Len(flat) : flat[k] = <<i, j>>
        nf == [i \in 1..Len(fs) |->
                 [fs[i] EXCEPT !.files =
                     [j \in 1..Len(fs[i].files) |->
                         Colored(fs, flat, At(i, j), cidx)]]]
        drawn == SelectIdx(Len(flat), [k \in 1..Len(flat) |-> IsDrawn(k)], 1)
    IN [folders |-> nf,
        color_idx |-> cidx,
        lines |-> [d \in 1..Len(drawn) |->
                      LineOf(fs, flat[drawn[d]], Entry(nf, flat[drawn[d]]),
                             cidx + FreshUpTo(fs, flat, drawn[d]))]]

\* the loop in the plot closure over the flattened entries:
\* [folders, color_idx, lines]
PlotLoop(fs, cidx) ==
    LET flat == Flat(fs)
        IsDrawn(k) == Drawn(Entry(fs, flat[k]))
        AtFolder(i) == {k \in 1..Len(flat) : flat[k][1] = i}
        At(i, j) == CHOOSE k \in 1..Len(flat) : flat[k] = <<i, j>>
        nf == [i \in 1..Len(fs) |->
                 [fs[i] EXCEPT !.files =
                     [j \in 1..Len(fs[i].files) |->
                         Colored(fs, flat, At(i, j), cidx)]]]
        drawn == SelectIdx(Len(flat), [k \in 1..Len(flat) |-> IsDrawn(k)], 1)
    IN [folders |-> nf,
        color_idx |-> cidx + FreshUpTo(fs, flat, Len(flat)),
        lines |-> [d \in 1..Len(drawn) |->
                      LineOf(fs, flat[drawn[d]], Entry(nf, flat[drawn[d]]),
                             cidx + FreshUpTo(fs, flat, drawn[d]))]]

\* the plot closure: bounds written to plot_dims, then the lines
Plot(app, cidx, bounds) ==
    CHOOSE v \in
        {[app |-> [app EXCEPT !.folders = r.folders, !.plot_dims = bounds],
          color_idx |-> r.color_idx, lines |-> r.lines] :
          r \in {PlotLoop(app.folders, cidx)}} : TRUE

\* the central panel of App::update: [app, color_idx, lines, allow_drag]
Update_panel(app, cidx, ptr, bounds) ==
    CHOOSE v \in
        {[app |-> r.app, color_idx |-> r.color_idx, lines |-> r.lines,
          allow_drag |-> ~(FDown(ptr) \/ DDown(ptr) \/ GDown(ptr))] :
          r \in UNION {{Plot([app EXCEPT !.folders = fs, !.acceleration = acc],
                              cidx, bounds) :
                            fs \in {Update_gestures(app.folders, acc, app.plot_dims,
                                    ptr)}} :
                         acc \in {Accelerate(app.acceleration, ptr)}}} : TRUE

\* App::plot_panel_ui: [app, color_idx, lines, allow_drag]
plot_panel_ui(app, cidx, ptr, bounds) ==
    CHOOSE v \in
        {[app |-> r.app, color_idx |-> r.color_idx, lines |-> r.lines,
          allow_drag |-> ~(FDown(ptr) \/ DDown(ptr) \/ GDown(ptr))] :
          r \in UNION {{Plot([app EXCEPT !.folders = fs, !.acceleration = acc],
                              cidx, bounds) :
                            fs \in {PlotPanel_gestures(app.folders, acc, app.plot_dims,
                                    ptr)}} :
                         acc \in {Accelerate(app.acceleration, ptr)}}} : TRUE

----------------------------------------------------------------------------
(* The environment: directories, files on disk, user input.                *)

Name1 == <<"a", "b">>
Name2 == <<"b", "c">>

\* read_dir of the directories the user can pick
DirNames(path) ==
    CASE path = "p1" -> <<Name1>>
      [] path = "p3" -> <<Name2>>
      [] OTHER -> <<Name1, Name2>>

\* texts a file can hold
TextGood == << <<"0", ",", "1", ",", "2">>, <<"0", ",", "3", ",", "4">> >>
TextTwoCols == << <<"1", ",", "2">>, <<"3", ",", "4">> >>
TextHeaderOnly == << <<"0", ",", "1", ",", "2">> >>
\* "1,2\n#comment\n3,x\n4,5\n", and the same rows behind a first column
TextExample == << <<"1", ",", "2">>, <<"#", "c", "o", "m", "m", "e", "n", "t">>,
                  <<"3", ",", "x">>, <<"4", ",", "5">> >>
TextExample3 == << <<"0", ",", "1", ",", "2">>, <<"#", "c">>,
                   <<"0", ",", "3", ",", "x">>, <<"0", ",", "4", ",", "5">> >>

\* a file of one more row than the log retains, none with a second column
TextMany == [i \in 1..(LogCap + 2) |-> <<"x">>]

\* the files as they read when a folder is scanned for previews
ScanFile == Some(TextGood)

\* the filter text at construction and the texts the user types
InitPhrase == <<>>
SearchPhrases == {<<"b">>, <<"a", " ", "b">>, <<"x">>}

\* bounds the plot widget reports
PlotBounds == [x0 |-> 0, x1 |-> Unit, y0 |-> 0, y1 |-> 2 * Unit]

ZoomedBounds == [x0 |-> 0, x1 |-> 2 * Unit, y0 |-> 0, y1 |-> 4 * Unit]
Views == {PlotBounds, ZoomedBounds}

\* no pointer or key input
NoPtr == [pressed |-> FALSE, down |-> FALSE, d |-> FALSE, f |-> FALSE,
          g |-> FALSE, dx |-> 0, dy |-> 0]
NoUi == [kind |-> "none", fi |-> 0, ei |-> 0, file |-> None]

\* the record of a frame's input: op names it, fi and ei the folder and
\* entry it is on, pre the state of that entry before the frame, got is
\* None when the frame did not read the entry's file and else Some of what
\* ingestion returned (None or Some(series)), ptr the pointer, n the number
\* of frames with a gesture so far, file what the disk held for the file
\* the frame read, held the number of frames in a row, this one included,
\* in which the primary button was down since it was pressed, appended the
\* messages the frame pushed to the error log before the log was cut,
\* sessions the number of frames that saved or loaded the session so far,
\* saved the folders, search phrase and viewport the App held when the
\* session file was last written
NoLast == [op |-> "init", fi |-> 0, ei |-> 0, pre |-> "", got |-> None,
           ptr |-> NoPtr, n |-> 0, file |-> None, held |-> 0,
           appended |-> <<>>, sessions |-> 0, saved |-> None]

----------------------------------------------------------------------------
(* Frames.  Every action is one call of App::update: the menu with one     *)
(* user input, the error log panel, the central panel.  One frame carries  *)
(* one pointer event.                                                      *)

\* the number of frames in a row with the primary button down since a press
HeldFrames(ptr) ==
    IF ~ptr.down THEN 0
    ELSE IF ptr.pressed THEN 1
    ELSE IF last.held > 0 THEN last.held + 1 ELSE 0

\* the primed variables after a frame: m is [app, id_counter, shown] as the
\* menu left them (with session_file where the menu wrote the file), r the
\* result of the central panel, bounds what the plot widget reported; only
\* frames that leave at most cap messages in the log are explored
Commit(m, r, rec, bounds, cap) ==
    /\ Len(r.app.errors) <= cap
    /\ folders' = r.app.folders
    /\ search_phrase' = r.app.search_phrase
    /\ plot_dims' = r.app.plot_dims
    /\ errors' = r.app.errors
    /\ acceleration' = r.app.acceleration
    /\ copied_csvoptions' = r.app.copied_csvoptions
    /\ color_idx' = r.color_idx
    /\ id_counter' = m.id_counter
    /\ listed' = m.shown
    /\ lines' = r.lines
    /\ allow_drag' = r.allow_drag
    /\ plot_bounds' = bounds
    /\ session_file' = IF "session_file" \in DOMAIN m THEN m.session_file
                       ELSE session_file
    /\ exported' = IF "exported" \in DOMAIN m THEN m.exported ELSE exported
    /\ assigned' = assigned \cup
           {<<Entry(r.app.folders, r.lines[k].pos).id, r.lines[k].idx>> :
               k \in {j \in 1..Len(r.lines) : r.lines[j].colored}}
    /\ last' = [rec EXCEPT !.n = last.n + IF rec.ptr = NoPtr THEN 0 ELSE 1,
                           !.held = HeldFrames(rec.ptr),
                           !.appended = SubSeq(m.app.errors, Len(errors) + 1,
                                               Len(m.app.errors)),
                           !.sessions = last.sessions
                               + IF rec.op \in {"save", "load"} THEN 1 ELSE 0,
                           !.saved = IF rec.op = "save"
                                        /\ session_file' # session_file
                                     THEN Some([folders |-> folders,
                                                search_phrase |-> search_phrase,
                                                plot_dims |-> plot_dims])
                                     ELSE last.saved]

\* App::update after the menu left app m.app: the log is cut, then the panel
Frame(m, ptr, rec, bounds, cap) ==
    \E mm \in {m} :
        \E r \in {Update_panel([mm.app EXCEPT !.errors = RetainLast(mm.app.errors)],
                               color_idx, ptr, bounds)} :
            Commit(mm, r, rec, bounds, cap)

\* a frame in which the plot widget keeps its bounds
Update(m, ptr, rec) == Frame(m, ptr, rec, plot_bounds, MaxLog)

\* a frame with no menu open
NoMenu == [app |-> App, id_counter |-> id_counter, shown |-> {}]

\* a frame with the folder menu open and input tin
TreeInput(open, picked, phrase, ui) ==
    [open |-> open, picked |-> picked, phrase |-> phrase, ui |-> ui]

Picked(paths) ==
    [k \in 1..Len(paths) |->
        [path |-> paths[k], names |-> DirNames(paths[k]),
         files |-> [i \in 1..Len(DirNames(paths[k])) |-> ScanFile]]]

\* a frame without any input
IdleFrame == Update(NoMenu, NoPtr, [NoLast EXCEPT !.op = "idle"])

\* the folder menu is open, nothing is clicked or typed
TreeIdle ==
    Update(file_tree_ui(App, id_counter,
                        TreeInput(FALSE, <<>>, search_phrase, NoUi)),
           NoPtr, [NoLast EXCEPT !.op = "tree"])

\* "Open Folder" is clicked and the dialog returns one of picks
OpenFolder(picks) ==
    \E paths \in picks :
        LET p == Picked(paths) IN
        /\ id_counter + Len(Concat([k \in 1..Len(p) |-> p[k].names])) <= MaxFiles
        /\ Update(file_tree_ui(App, id_counter,
                               TreeInput(TRUE, p, search_phrase, NoUi)),
                  NoPtr, [NoLast EXCEPT !.op = "open"])

\* the filter text is edited to another text
EditFilterTo(phrases) ==
    \E phrase \in phrases \ {search_phrase} :
        /\ folders # <<>>
        /\ Update(file_tree_ui(App, id_counter,
                               TreeInput(FALSE, <<>>, phrase, NoUi)),
                  NoPtr,
                  [NoLast EXCEPT !.op = "filter",
                                 !.pre = IF \E e \in Entries(folders) :
                                               e.state = "PreviouslyPlotted"
                                         THEN "PreviouslyPlotted" ELSE ""])

EditFilter == EditFilterTo(SearchPhrases)

\* the "x" button of folder fi is clicked
ClickFolderX ==
    \E fi \in 1..Len(folders) :
        Update(file_tree_ui(App, id_counter,
                            TreeInput(FALSE, <<>>, search_phrase,
                                      [NoUi EXCEPT !.kind = "x", !.fi = fi])),
               NoPtr, [NoLast EXCEPT !.op = "x", !.fi = fi])

\* the label of folder fi is clicked
ClickFolderLabel ==
    \E fi \in 1..Len(folders) :
        Update(file_tree_ui(App, id_counter,
                            TreeInput(FALSE, <<>>, search_phrase,
                                      [NoUi EXCEPT !.kind = "label", !.fi = fi])),
               NoPtr, [NoLast EXCEPT !.op = "label", !.fi = fi])

\* whether a click on entry e reads the file, and the series ingestion of
\* file returns with the parameters of e
Reads(e) == e.data_file.data = <<>> /\ e.state # "NeedsConfig"
Got(e, file, path) ==
    CHOOSE v \in {IF IsSome(c) THEN Some(Unwrap(c).data) ELSE None :
                    c \in {Ingest(e, file, path, <<>>).csvfile}} : TRUE

\* a primary click on the shown label of entry ei of folder fi, while the
\* file reads as one of disk
ClickFileCap(disk, cap) ==
    \E fi \in 1..Len(folders) :
        \E ei \in 1..Len(folders[fi].files) :
            LET e == folders[fi].files[ei] IN
            \E file \in IF Reads(e) THEN disk ELSE {None} :
                /\ LabelShown(folders[fi], e, search_phrase)
                /\ Frame(file_tree_ui(App, id_counter,
                            TreeInput(FALSE, <<>>, search_phrase,
                                      [kind |-> "primary", fi |-> fi, ei |-> ei,
                                       file |-> file])),
                         NoPtr,
                         [NoLast EXCEPT !.op = "click", !.fi = fi, !.ei = ei,
                                        !.pre = e.state,
                                        !.got = IF Reads(e)
                                                THEN Some(Got(e, file,
                                                          folders[fi].path))
                                                ELSE None,
                                        !.file = file],
                         plot_bounds, cap)

ClickFile(disk) == ClickFileCap(disk, MaxLog)

\* a secondary click on the shown label of entry ei of folder fi
SecondaryClickFile ==
    \E fi \in 1..Len(folders) :
        \E ei \in 1..Len(folders[fi].files) :
            LET e == folders[fi].files[ei] IN
            /\ LabelShown(folders[fi], e, search_phrase)
            /\ Update(file_tree_ui(App, id_counter,
                        TreeInput(FALSE, <<>>, search_phrase,
                                  [kind |-> "secondary", fi |-> fi, ei |-> ei,
                                   file |-> None])),
                      NoPtr,
                      [NoLast EXCEPT !.op = "secondary", !.fi = fi, !.ei = ei,
                                     !.pre = e.state])

\* the CSV options of a plotted entry are set to one of options in its
\* settings menu
EditOptions(options) ==
    \E fi \in 1..Len(folders), o \in options :
        \E ei \in 1..Len(folders[fi].files) :
            LET e == folders[fi].files[ei] IN
            /\ is_plotted(e)
            /\ Update([app |-> settings_menu(App,
                                  [kind |-> "options", fi |-> fi, ei |-> ei,
                                   options |-> o, file |-> None]),
                       id_counter |-> id_counter, shown |-> {}],
                      NoPtr,
                      [NoLast EXCEPT !.op = "options", !.fi = fi, !.ei = ei,
                                     !.pre = e.state])

\* "Reload CSV" is clicked in the settings menu of a plotted entry, while
\* the file reads as one of disk
ReloadCsvCap(disk, cap) ==
    \E fi \in 1..Len(folders), file \in disk :
        \E ei \in 1..Len(folders[fi].files) :
            LET e == folders[fi].files[ei] IN
            /\ is_plotted(e)
            /\ Frame([app |-> settings_menu(App,
                                  [kind |-> "reload", fi |-> fi, ei |-> ei,
                                   options |-> CSVFile_default, file |-> file]),
                      id_counter |-> id_counter, shown |-> {}],
                     NoPtr,
                     [NoLast EXCEPT !.op = "reload", !.fi = fi, !.ei = ei,
                                    !.pre = e.state,
                                    !.got = Some(Got(e, file,
                                                     folders[fi].path)),
                                    !.file = file],
                     plot_bounds, cap)

ReloadCsv(disk) == ReloadCsvCap(disk, MaxLog)

\* an input sin in the settings menu of a plotted entry
Settings(inputs) ==
    \E fi \in 1..Len(folders), sin \in inputs :
        \E ei \in 1..Len(folders[fi].files) :
            LET e == folders[fi].files[ei] IN
            /\ is_plotted(e)
            /\ Update([app |-> settings_menu(App,
                                  [sin EXCEPT !.fi = fi, !.ei = ei]),
                       id_counter |-> id_counter, shown |-> {}],
                      NoPtr,
                      [NoLast EXCEPT !.op = sin.kind, !.fi = fi, !.ei = ei,
                                     !.pre = e.state])

\* "Save Session" is clicked
\* the series save_svg draws: one per entry the loop does not skip
SvgSeries(fs) ==
    LET flat == Flat(fs)
        kept == SelectIdx(Len(flat),
                    [k \in 1..Len(flat) |->
                        ~(~is_plotted(Entry(fs, flat[k]))
                          \/ Entry(fs, flat[k]).color = TRANSPARENT)], 1)
    IN [d \in 1..Len(kept) |->
           [id |-> Entry(fs, flat[kept[d]]).id,
            label |-> Entry(fs, flat[kept[d]]).filename,
            color |-> Entry(fs, flat[kept[d]]).color,
            points |-> DisplayedPoints(Entry(fs, flat[kept[d]]))]]

\* App::save_svg: [svg, err], svg the file on disk afterwards; path is the
\* answer of the save dialog, writable whether the backend can write to it
save_svg(self, path, writable, svg) ==
    IF ~path
    THEN [svg |-> svg, err |-> Some(Msg("ERROR", "svg path", PathOf("", <<>>), 0))]
    ELSE IF ~writable
    THEN [svg |-> svg, err |-> Some(Msg("ERROR", "svg write", PathOf("", <<>>), 0))]
    ELSE [svg |-> Some(SvgSeries(self.folders)), err |-> None]

\* a click on Save Plot
SavePlot ==
    \E path \in BOOLEAN, writable \in BOOLEAN :
        \E r \in {save_svg(App, path, writable, exported)} :
            Update([app |-> IF IsSome(r.err)
                            THEN [App EXCEPT !.errors = Append(@, Unwrap(r.err))]
                            ELSE App,
                    id_counter |-> id_counter, shown |-> {}, exported |-> r.svg],
                   NoPtr,
                   [NoLast EXCEPT !.op = "export",
                                  !.pre = IF ~path THEN "Cancel"
                                          ELSE IF IsSome(r.err) THEN "Err"
                                          ELSE "Ok"])

\* App::load_state(Some(path)): the file picked may be unreadable, or hold
\* something that is no session
load_state_path(self, readable, wellformed, file) ==
    IF ~readable \/ ~IsSome(file)
    THEN [app |-> self,
          err |-> Some(Msg("", "config read", PathOf("", <<>>), 0))]
    ELSE IF ~wellformed
    THEN [app |-> self,
          err |-> Some(Msg("ERROR", "config parse", PathOf("", <<>>), 0))]
    ELSE [app |-> from_str(Unwrap(file)), err |-> None]

\* a click on Save Session As ...: the dialog gives a path or is cancelled
SaveSessionAs ==
    \E path \in BOOLEAN, writable \in BOOLEAN :
        /\ last.sessions < MaxSessions
        /\ Update([app |-> IF path THEN App
                           ELSE [App EXCEPT !.errors =
                                   Append(@, Msg("WARNING", "no path",
                                                 PathOf("", <<>>), 0))],
                   id_counter |-> id_counter, shown |-> {},
                   session_file |-> IF path
                                    THEN save_state(App, TRUE, writable,
                                                    session_file)
                                    ELSE session_file],
                  NoPtr,
                  [NoLast EXCEPT !.op = "save",
                                 !.pre = IF ~path THEN "Cancel"
                                         ELSE IF writable THEN "Ok" ELSE "Err"])

\* a click on Load Session From ...: the dialog gives a path or is cancelled
LoadSessionFrom ==
    \E path \in BOOLEAN, readable \in BOOLEAN, wellformed \in BOOLEAN :
        /\ last.sessions < MaxSessions
        /\ \E r \in {IF path
                      THEN load_state_path(App, readable, wellformed,
                                           session_file)
                      ELSE [app |-> App, err |-> None]} :
              Update([app |-> IF IsSome(r.err)
                              THEN [r.app EXCEPT
                                       !.errors = Append(@, Unwrap(r.err))]
                              ELSE r.app,
                      id_counter |-> id_counter, shown |-> {}],
                     NoPtr,
                     [NoLast EXCEPT !.op = "load",
                                    !.pre = IF ~path THEN "Cancel"
                                            ELSE IF IsSome(r.err) THEN "Err"
                                            ELSE "Ok"])

SaveSession ==
    \E home \in BOOLEAN, writable \in BOOLEAN :
        /\ last.sessions < MaxSessions
        /\ Update([app |-> App, id_counter |-> id_counter, shown |-> {},
                   session_file |-> save_state(App, home, writable,
                                               session_file)],
                  NoPtr,
                  [NoLast EXCEPT !.op = "save",
                                 !.pre = IF home /\ writable THEN "Ok" ELSE "Err"])

\* "Load Session" is clicked: an Err of load_state is pushed to the log
LoadSession ==
    \E home \in BOOLEAN :
        /\ last.sessions < MaxSessions
        /\ \E r \in {load_state(App, home, session_file)} :
              Update([app |-> IF IsSome(r.err)
                              THEN [r.app EXCEPT
                                       !.errors = Append(@, Unwrap(r.err))]
                              ELSE r.app,
                      id_counter |-> id_counter, shown |-> {}],
                     NoPtr,
                     [NoLast EXCEPT !.op = "load",
                                    !.pre = IF IsSome(r.err) THEN "Err" ELSE "Ok"])

\* the plot widget changes its bounds: the user zooms or scrolls the plot
ViewChange ==
    \E bounds \in Views \ {plot_bounds} :
        Frame(NoMenu, NoPtr, [NoLast EXCEPT !.op = "view"], bounds, MaxLog)

\* the state after construction: App::default with the search phrase set
Init ==
    /\ folders = <<>>
    /\ search_phrase = InitPhrase
    /\ plot_dims = PlotDimensions_default
    /\ errors = <<>>
    /\ acceleration = None
    /\ copied_csvoptions = None
    /\ color_idx = 0
    /\ id_counter = 0
    /\ listed = {}
    /\ lines = <<>>
    /\ allow_drag = TRUE
    /\ plot_bounds = PlotBounds
    /\ session_file = None
    /\ assigned = {}
    /\ exported = None
    /\ last = NoLast

----------------------------------------------------------------------------
(* Spec: the file entry state machine under clicks and reloads.            *)

SpecPicks == {<<>>, <<"p2">>, <<"p1", "p3">>}
SpecDisk == {None, Some(TextGood), Some(TextTwoCols)}

Next ==
    \/ IdleFrame
    \/ OpenFolder(SpecPicks)
    \/ ClickFile(SpecDisk)
    \/ SecondaryClickFile

Spec == Init /\ [][Next]_vars

\* SpecReload: ingestion with the CSV options as the user sets them, and
\* reloads
ReloadPicks == {<<"p2">>}
ReloadDisk == {None, Some(TextGood), Some(TextTwoCols)}
ReloadOptions == {[CSVFile_default EXCEPT !.xcol = 0, !.ycol = 1]}

NextReload ==
    \/ OpenFolder(ReloadPicks)
    \/ ClickFile(ReloadDisk)
    \/ EditOptions(ReloadOptions)
    \/ ReloadCsv(ReloadDisk)

SpecReload == Init /\ [][NextReload]_vars

----------------------------------------------------------------------------
(* The file entry state machine: claims on clicks.                         *)

\* the entry the frame's input was on, before and after the frame
Before == folders[last'.fi].files[last'.ei]
After == folders'[last'.fi].files[last'.ei]
PathBefore == folders[last'.fi].path

\* C1: a primary click on an entry whose data is empty and whose state is
\* not NeedsConfig attempts ingestion with the entry's current parameters;
\* if ingestion returns a series the state becomes Plotted and the data is
\* that series, if it returns none the state becomes NeedsConfig.  The
\* same holds of FileEntry::clicked on that entry for every file.
C1_ClickIngests ==
    [][(last'.op = "click" /\ Before.data_file.data = <<>>
            /\ Before.state # "NeedsConfig") =>
        /\ IsSome(last'.got)
        /\ IF IsSome(last'.got[1])
           THEN After.state = "Plotted"
                /\ After.data_file.data = last'.got[1][1]
                /\ After.data_file.data # <<>>
           ELSE After.state = "NeedsConfig" /\ After.data_file = Before.data_file
        /\ \A file \in ReloadDisk :
              LET r == clicked(Before, file, PathBefore, errors).entry
                  g == Got(Before, file, PathBefore)
              IN IF IsSome(g)
                 THEN r.state = "Plotted" /\ r.data_file.data = g[1]
                 ELSE r.state = "NeedsConfig"]_vars

\* a click has read a file that yields no series and the entry is in
\* NeedsConfig, while another entry was ingested and is Plotted
C1_Witness ==
    /\ last.op = "click" /\ IsSome(last.got) /\ ~IsSome(last.got[1])
    /\ folders[last.fi].files[last.ei].state = "NeedsConfig"
    /\ \E e \in Entries(folders) : e.state = "Plotted" /\ e.data_file.data # <<>>

\* C2: a primary click on an entry that has data or is in NeedsConfig
\* reads nothing and changes only the state, by the current state alone:
\* Active or Plotted to PreviouslyPlotted, Idle or PreviouslyPlotted to
\* Plotted, NeedsConfig to Idle.  The same holds of FileEntry::clicked.
C2_ClickToggles ==
    [][(last'.op = "click" /\ ~(Before.data_file.data = <<>>
                                 /\ Before.state # "NeedsConfig")) =>
        LET to == CASE Before.state \in {"Active", "Plotted"} -> "PreviouslyPlotted"
                    [] Before.state \in {"Idle", "PreviouslyPlotted"} -> "Plotted"
                    [] Before.state = "NeedsConfig" -> "Idle"
        IN /\ After = [Before EXCEPT !.state = to, !.color = After.color]
           /\ errors' = errors
           /\ \A file \in SpecDisk :
                 clicked(Before, file, PathBefore, errors) =
                     [entry |-> [Before EXCEPT !.state = to], log |-> errors]]_vars

\* a click on an entry in NeedsConfig has reset it to Idle
C2_Witness ==
    /\ last.op = "click" /\ last.pre = "NeedsConfig" /\ last.got = None
    /\ folders[last.fi].files[last.ei].state = "Idle"

\* C3: a secondary click changes Plotted to Active and Active to Plotted and
\* leaves Idle, PreviouslyPlotted and NeedsConfig; a second secondary click
\* on the result gives the entry's starting state back.  The same holds of
\* FileEntry::secondary_clicked.
C3_SecondaryClick ==
    [][last'.op = "secondary" =>
        LET to == CASE Before.state = "Plotted" -> "Active"
                    [] Before.state = "Active" -> "Plotted"
                    [] OTHER -> Before.state
        IN /\ After = [Before EXCEPT !.state = to, !.color = After.color]
           /\ \A pos \in Range(Flat(folders)) :
                 pos # <<last'.fi, last'.ei>> =>
                     Entry(folders', pos).state = Entry(folders, pos).state
           /\ InlineSecondaryClicked(After).state = Before.state
           /\ secondary_clicked(Before) = [Before EXCEPT !.state = to]
           /\ secondary_clicked(secondary_clicked(Before)) = Before]_vars

\* a secondary click has made a Plotted entry Active
C3_Witness ==
    /\ last.op = "secondary" /\ last.pre = "Plotted"
    /\ folders[last.fi].files[last.ei].state = "Active"

\* C8: in every frame the renderer draws a line for exactly the entries in
\* Plotted or Active, and gives an automatic colour to none but these
C8_DrawsPlottedOrActive ==
    /\ {lines[k].pos : k \in 1..Len(lines)} =
           {pos \in Range(Flat(folders)) :
               Entry(folders, pos).state \in {"Plotted", "Active"}}
    /\ \A k \in 1..Len(lines) :
           lines[k].colored =>
               Entry(folders, lines[k].pos).state \in {"Plotted", "Active"}

\* C9: a reload leaves the entry's state; when re-ingestion returns a series
\* the data is that series, when it returns none the data and the ingestion
\* parameters stay and the log is the old one, possibly longer.
\* FileEntry::reload_csv leaves the state, whichever of the five it is.
C9_ReloadKeepsState ==
    [][last'.op = "reload" =>
        /\ After.state = Before.state
        /\ IF IsSome(last'.got[1])
           THEN After.data_file.data = last'.got[1][1]
           ELSE After = [Before EXCEPT !.color = After.color]
        /\ Len(errors') >= Len(errors)
        /\ SubSeq(errors', 1, Len(errors)) = errors
        /\ \A state \in FileEntryState : \A file \in ReloadDisk :
              reload_csv([Before EXCEPT !.state = state], file, PathBefore,
                         errors).entry.state = state]_vars

\* a reload that returned no series has left a Plotted entry with its data
C9_Witness ==
    /\ last.op = "reload" /\ last.got = Some(None) /\ last.pre = "Plotted"
    /\ folders[last.fi].files[last.ei].state = "Plotted"
    /\ folders[last.fi].files[last.ei].data_file.data # <<>>
    /\ errors # <<>>

----------------------------------------------------------------------------
(* SpecList: the folder listing under filter edits, folder labels and      *)
(* clicks.                                                                 *)

ListPicks == {<<"p2">>, <<"p1", "p3">>}
ListDisk == {Some(TextGood), Some(TextHeaderOnly)}

NextList ==
    \/ OpenFolder(ListPicks)
    \/ EditFilter
    \/ ClickFolderLabel
    \/ ClickFile(ListDisk)
    \/ SecondaryClickFile
    \/ TreeIdle

SpecList == Init /\ [][NextList]_vars

\* the frame's primary click was on the entry at pos: its state is the one
\* the click gave it after its label was listed
JustClicked(pos) == last.op = "click" /\ pos = <<last.fi, last.ei>>

\* filename contains every token of the phrase split at single spaces
MatchesPhrase(filename, phrase) ==
    \A i \in 1..Len(Split(phrase, " ")) : Contains(filename, Split(phrase, " ")[i])

\* C4: when the search phrase changes to a different text, every entry in
\* PreviouslyPlotted becomes Idle and every other entry keeps its state; in
\* a frame that leaves the phrase, no entry but a clicked one changes state.
\* FileEntry::search_phrase_changed maps the states the same way.
C4_PhraseChangeReleases ==
    [][/\ last'.op = "filter" =>
            /\ search_phrase' # search_phrase
            /\ \A pos \in Range(Flat(folders)) :
                  Entry(folders', pos).state =
                      IF Entry(folders, pos).state = "PreviouslyPlotted"
                      THEN "Idle" ELSE Entry(folders, pos).state
       /\ last'.op # "filter" =>
            /\ search_phrase' = search_phrase
            /\ \A pos \in Range(Flat(folders)) :
                  pos # <<last'.fi, last'.ei>> =>
                      Entry(folders', pos).state = Entry(folders, pos).state
       /\ \A e \in Entries(folders) :
            search_phrase_changed(e) =
                [e EXCEPT !.state = IF e.state = "PreviouslyPlotted"
                                    THEN "Idle" ELSE e.state]]_vars

\* an edit of the filter has released a previously plotted entry while
\* another entry stays Active
C4_Witness ==
    /\ last.op = "filter" /\ last.pre = "PreviouslyPlotted"
    /\ \E e \in Entries(folders) : e.state = "Idle" /\ e.data_file.data # <<>>
    /\ \E e \in Entries(folders) : e.state = "Active"
    /\ \A e \in Entries(folders) : e.state # "PreviouslyPlotted"

\* C5: an entry in Plotted, Active or NeedsConfig is listed by the frame,
\* and both listing predicates list it for every search phrase, expanded
\* or not
C5_PlottedAlwaysListed ==
    last.op # "init" =>
        \A pos \in Range(Flat(folders)) :
            (Entry(folders, pos).state \in {"Plotted", "Active", "NeedsConfig"}
                /\ ~JustClicked(pos)) =>
                /\ pos \in listed
                /\ \A phrase \in SearchPhrases \cup {InitPhrase} :
                      \A exp \in BOOLEAN :
                          /\ should_be_listed(Entry(folders, pos), phrase, exp)
                          /\ LabelShown([folders[pos[1]] EXCEPT !.expanded = exp],
                                        Entry(folders, pos), phrase)

\* an entry in NeedsConfig whose name does not match the filter is listed in
\* a collapsed folder
C5_Witness ==
    \E pos \in listed :
        /\ pos \in Range(Flat(folders))
        /\ ~JustClicked(pos)
        /\ Entry(folders, pos).state = "NeedsConfig"
        /\ ~MatchesPhrase(Entry(folders, pos).filename, search_phrase)
        /\ ~folders[pos[1]].expanded

\* C6: an entry in Idle is listed if and only if its filename contains every
\* token of the search phrase and its folder is expanded
C6_IdleListedIffMatch ==
    last.op # "init" =>
        \A pos \in Range(Flat(folders)) :
            (Entry(folders, pos).state = "Idle" /\ ~JustClicked(pos)) =>
                /\ pos \in listed <=>
                      (MatchesPhrase(Entry(folders, pos).filename, search_phrase)
                          /\ folders[pos[1]].expanded)
                /\ should_be_listed(Entry(folders, pos), search_phrase,
                                    folders[pos[1]].expanded) <=>
                      (MatchesPhrase(Entry(folders, pos).filename, search_phrase)
                          /\ folders[pos[1]].expanded)

\* C7: an entry in PreviouslyPlotted is listed only when its folder is
\* expanded, by the frame and by FileEntry::should_be_listed
C7_PreviouslyPlottedNeedsExpanded ==
    last.op # "init" =>
        \A pos \in Range(Flat(folders)) :
            (Entry(folders, pos).state = "PreviouslyPlotted"
                /\ ~JustClicked(pos) /\ ~folders[pos[1]].expanded) =>
                /\ pos \notin listed
                /\ \A phrase \in SearchPhrases \cup {InitPhrase} :
                      ~should_be_listed(Entry(folders, pos), phrase, FALSE)

----------------------------------------------------------------------------
(* SpecGesture: the gestures on the plot, by App::update and by            *)
(* App::plot_panel_ui.                                                     *)

\* a frame of App::update with the pointer and key input ptr
GestureCap(ptrs, cap) ==
    \E ptr \in ptrs :
        /\ last.n < cap
        /\ Update(NoMenu, ptr, [NoLast EXCEPT !.op = "gesture", !.ptr = ptr])

\* a call of App::plot_panel_ui with the pointer and key input ptr
PlotPanelCap(ptrs, cap) ==
    \E ptr \in ptrs :
        /\ last.n < cap
        /\ \E r \in {plot_panel_ui(App, color_idx, ptr, plot_bounds)} :
              Commit(NoMenu, r, [NoLast EXCEPT !.op = "panel", !.ptr = ptr],
                     plot_bounds, MaxLog)

Gesture(ptrs) == GestureCap(ptrs, MaxGestures)

PlotPanel(ptrs) == PlotPanelCap(ptrs, MaxGestures)

GesturePicks == {<<"p2">>}
GestureDisk == {Some(TextGood)}
Drag == [NoPtr EXCEPT !.pressed = TRUE, !.down = TRUE]
GesturePtrs ==
    {[Drag EXCEPT !.f = TRUE, !.dy = 1],
     [Drag EXCEPT !.f = TRUE, !.dy = -1, !.pressed = FALSE],
     [Drag EXCEPT !.d = TRUE, !.dy = 1],
     [Drag EXCEPT !.g = TRUE, !.dx = -1],
     [Drag EXCEPT !.d = TRUE, !.f = TRUE, !.dy = 1],
     [Drag EXCEPT !.f = TRUE, !.down = FALSE, !.pressed = FALSE, !.dy = 1]}

NextGesture ==
    \/ OpenFolder(GesturePicks)
    \/ ClickFile(GestureDisk)
    \/ SecondaryClickFile
    \/ Gesture(GesturePtrs)
    \/ PlotPanel(GesturePtrs)

SpecGesture == Init /\ [][NextGesture]_vars

\* the three text fields the gestures write
GestureTexts(e) == <<e.scale.input, e.offset.input, e.xoffset.input>>

\* C10: whatever the gesture and the input of the frame, the scale, offset
\* and xoffset text of every entry that is not Active is left as it was
C10_GesturesOnlyActive ==
    [][last'.op \in {"gesture", "panel"} =>
        \A pos \in Range(Flat(folders)) :
            Entry(folders, pos).state # "Active" =>
                GestureTexts(Entry(folders', pos)) =
                    GestureTexts(Entry(folders, pos))]_vars

----------------------------------------------------------------------------
(* SpecAccel: the acceleration value under presses, holds and releases of  *)
(* the primary button.                                                     *)

\* pointer inputs: the button goes down, stays down, goes down and up within
\* the frame, the pointer moves with the button up
Press == Drag
Hold == [Drag EXCEPT !.pressed = FALSE]
Tap == [NoPtr EXCEPT !.pressed = TRUE]
Move == [NoPtr EXCEPT !.dx = 1]
AccelInputs ==
    {Press, Hold, Tap, Move,
     [Press EXCEPT !.f = TRUE, !.dy = 1], [Hold EXCEPT !.f = TRUE, !.dy = -1],
     [Hold EXCEPT !.g = TRUE, !.dx = 1]}

\* egui reports the button down without a press only when it was down in
\* the frame before
AccelPtrs == {p \in AccelInputs : (p.down /\ ~p.pressed) => last.ptr.down}

NextAccel ==
    \/ IdleFrame
    \/ OpenFolder(GesturePicks)
    \/ ClickFile(GestureDisk)
    \/ Gesture(AccelPtrs)
    \/ PlotPanel(AccelPtrs)

SpecAccel == Init /\ [][NextAccel]_vars

RECURSIVE Pow(_, _)
Pow(b, n) == IF n = 0 THEN 1 ELSE b * Pow(b, n - 1)

\* 1.03^n in units, rounded down
Pow103(n) ==
    IF 2 * n >= Decimals THEN Pow(103, n) \div Pow(10, 2 * n - Decimals)
    ELSE Pow(103, n) * Pow(10, Decimals - 2 * n)

\* C11: a frame in which the primary button is pressed resets the
\* acceleration to 1.0, a frame in which the button is down multiplies it by
\* 1.03 once (the frame of the press included), a frame with the button
\* neither pressed nor down leaves it; after N frames in a row with the
\* button down since a press it is 1.03^N, within N units of the last place
C11_Acceleration ==
    [][/\ (last'.ptr.pressed /\ last'.ptr.down) =>
            acceleration' = Some((Unit * 103) \div 100)
       /\ (last'.ptr.pressed /\ ~last'.ptr.down) => acceleration' = Some(Unit)
       /\ (~last'.ptr.pressed /\ last'.ptr.down) =>
            /\ IsSome(acceleration) /\ IsSome(acceleration')
            /\ Abs(100 * Unwrap(acceleration') - 103 * Unwrap(acceleration)) <= 50
       /\ (~last'.ptr.pressed /\ ~last'.ptr.down) => acceleration' = acceleration
       /\ last'.held > 0 =>
            /\ IsSome(acceleration')
            /\ Abs(Unwrap(acceleration') - Pow103(last'.held)) <= last'.held]_vars

\* the button was held for a second frame after a press and the
\* acceleration has grown beyond 1.03
C11_Witness ==
    /\ last.held >= 2 /\ ~last.ptr.pressed
    /\ IsSome(acceleration) /\ Unwrap(acceleration) > (Unit * 103) \div 100

----------------------------------------------------------------------------
(* SpecIngest: ingestion of files with rows that do not parse.             *)

IngestPicks == {<<"p2">>}
IngestDisk ==
    {None, Some(TextExample), Some(TextExample3), Some(TextHeaderOnly)}
IngestLog == MaxLog + 1

NextIngest ==
    \/ OpenFolder(IngestPicks)
    \/ ClickFileCap(IngestDisk, IngestLog)
    \/ EditOptions(ReloadOptions)
    \/ ReloadCsvCap(IngestDisk, IngestLog)

SpecIngest == Init /\ [][NextIngest]_vars

\* the rows of a text that are not comments, split into fields
NonCommentRows(text, opts) ==
    LET IsData(l) == l # <<>> /\ Head(l) # opts.comment_char
        rows == SelectSeq(text, IsData)
    IN [i \in 1..Len(rows) |-> Split(rows[i], opts.delimiter)]

\* the field at column col of a row is there and is a number
Numeric(fields, col) ==
    col < Len(fields) /\ IsSome(ParseFloat(fields[col + 1]))

\* the rows with a number at xcol and a value at ycol that is no number
BadYRows(rows, opts) ==
    {k \in 1..Len(rows) :
        /\ Numeric(rows[k], opts.xcol)
        /\ opts.ycol < Len(rows[k])
        /\ ~Numeric(rows[k], opts.ycol)}

\* exactly one row has a value at ycol that is no number, all others are
\* well formed
OneBadYRow(file, opts) ==
    /\ IsSome(file)
    /\ Cardinality(BadYRows(NonCommentRows(Unwrap(file), opts), opts)) = 1
    /\ \A j \in 1..Len(NonCommentRows(Unwrap(file), opts)) :
           \/ j \in BadYRows(NonCommentRows(Unwrap(file), opts), opts)
           \/ /\ Numeric(NonCommentRows(Unwrap(file), opts)[j], opts.xcol)
              /\ Numeric(NonCommentRows(Unwrap(file), opts)[j], opts.ycol)

\* the points of all rows but row k, in file order
PointsBut(rows, k, opts) ==
    LET idx == SelectIdx(Len(rows), [j \in 1..Len(rows) |-> j # k], 1)
    IN [d \in 1..Len(idx) |->
           <<Unwrap(ParseFloat(rows[idx[d]][opts.xcol + 1])),
             Unwrap(ParseFloat(rows[idx[d]][opts.ycol + 1]))>>]

\* C12: when the file a frame ingests has exactly one row k whose value in
\* the y column is no number, all other rows being well formed, ingestion
\* returns the points of all rows but k in file order, the first row of the
\* file included, and the frame appends one log entry, which names k, the
\* 1-based index among the rows that are not comments; of
\* "1,2\n#comment\n3,x\n4,5\n" with columns 0 and 1 the series is
\* [[1,2],[4,5]] and the warning names row 2
C12_OneBadRowSkipped ==
    [][(last'.op \in {"click", "reload"} /\ IsSome(last'.got)
            /\ OneBadYRow(last'.file, Before.data_file)) =>
        LET rows == NonCommentRows(Unwrap(last'.file), Before.data_file)
            k == CHOOSE b \in BadYRows(rows, Before.data_file) : TRUE
        IN /\ last'.got = Some(Some(PointsBut(rows, k, Before.data_file)))
           /\ Len(last'.appended) = 1
           /\ last'.appended[1].row = k
           /\ (last'.file = Some(TextExample) /\ Before.data_file.xcol = 0
                   /\ Before.data_file.ycol = 1) =>
                 /\ last'.got = Some(Some(<< <<Unit, 2 * Unit>>,
                                             <<4 * Unit, 5 * Unit>> >>))
                 /\ last'.appended[1].row = 2]_vars

\* some row of the file that is not a comment has numbers at both columns
SomeValidRow(file, opts) ==
    /\ IsSome(file)
    /\ \E j \in 1..Len(NonCommentRows(Unwrap(file), opts)) :
           /\ Numeric(NonCommentRows(Unwrap(file), opts)[j], opts.xcol)
           /\ Numeric(NonCommentRows(Unwrap(file), opts)[j], opts.ycol)

\* C13: ingestion returns a series if and only if the file can be opened
\* and at least one row yields a valid pair; a returned series is never
\* empty; when the file cannot be opened nothing is returned and exactly one
\* entry, an error, is appended to the log
C13_SeriesIffValidRow ==
    [][(last'.op \in {"click", "reload"} /\ IsSome(last'.got)) =>
        /\ IsSome(last'.got[1]) <=> SomeValidRow(last'.file, Before.data_file)
        /\ IsSome(last'.got[1]) => last'.got[1][1] # <<>>
        /\ ~IsSome(last'.file) =>
              /\ ~IsSome(last'.got[1])
              /\ Len(last'.appended) = 1
              /\ last'.appended[1].level = "ERROR"]_vars

----------------------------------------------------------------------------
(* SpecSession: saving and loading the session.                            *)

SessionPicks == {<<"p2">>}
SessionDisk == {Some(TextGood)}
SessionInputs == {[kind |-> "copy", fi |-> 0, ei |-> 0]}

NextSession ==
    \/ OpenFolder(SessionPicks)
    \/ ClickFile(SessionDisk)
    \/ Settings(SessionInputs)
    \/ ViewChange
    \/ SaveSession
    \/ LoadSession

SpecSession == Init /\ [][NextSession]_vars

\* C14: a frame that loads the saved session file ends with the folders,
\* their file entries, the search phrase and the viewport bounds the App
\* held when the file was saved, and with an empty error log, no
\* acceleration and no copied CSV options, whatever these held before
C14_SaveLoadRoundTrip ==
    [][(last'.op = "load" /\ last'.pre = "Ok") =>
        /\ IsSome(last.saved)
        /\ folders' = last.saved[1].folders
        /\ search_phrase' = last.saved[1].search_phrase
        /\ plot_dims' = last.saved[1].plot_dims
        /\ errors' = <<>>
        /\ acceleration' = None
        /\ copied_csvoptions' = None]_vars

----------------------------------------------------------------------------
(* SpecLog: the error log under ingestions that fail.                      *)

LogPicks == {<<"p2">>}
LogClickDisk == {None}
LogReloadDisk == {Some(TextMany)}

NextLog ==
    \/ OpenFolder(LogPicks)
    \/ ClickFileCap(LogClickDisk, LogCap)
    \/ ReloadCsvCap(LogReloadDisk, LogCap)

SpecLog == Init /\ [][NextLog]_vars

\* C15: at the end of every frame the error log holds at most 10 messages:
\* the last 10, in their order, of the log before the frame followed by the
\* messages the frame appended, however many these are
C15_LogRetainsLast10 ==
    [][/\ Len(errors') <= 10
       /\ errors' =
            IF Len(errors \o last'.appended) > 10
            THEN SubSeq(errors \o last'.appended,
                        Len(errors \o last'.appended) - 9,
                        Len(errors \o last'.appended))
            ELSE errors \o last'.appended]_vars

\* a frame has appended more than 10 messages to a log that held some, and
\* 10 are left
C15_Witness ==
    /\ Len(last.appended) > 10
    /\ Len(errors) = 10
    /\ errors = SubSeq(last.appended, Len(last.appended) - 9,
                       Len(last.appended))
    /\ last.op = "reload"

----------------------------------------------------------------------------
(* SpecKeys: the gestures under every combination of keys.                 *)

MaxKeys == 1
KeysPicks == {<<"p2">>}
KeysDisk == {Some(TextGood)}
KeysPtrs ==
    {[Press EXCEPT !.f = TRUE, !.dy = 1],
     [Hold EXCEPT !.f = TRUE, !.dy = -1],
     [Press EXCEPT !.d = TRUE, !.dy = -1],
     [Press EXCEPT !.g = TRUE, !.dx = 1],
     [Press EXCEPT !.d = TRUE, !.f = TRUE, !.dy = 1],
     [Move EXCEPT !.f = TRUE, !.dy = 1],
     [Press EXCEPT !.f = TRUE],
     [Press EXCEPT !.f = TRUE, !.g = TRUE, !.dx = 1, !.dy = 1]}

NextKeys ==
    \/ OpenFolder(KeysPicks)
    \/ ClickFile(KeysDisk)
    \/ SecondaryClickFile
    \/ GestureCap(KeysPtrs, MaxKeys)
    \/ PlotPanelCap(KeysPtrs, MaxKeys)

SpecKeys == Init /\ [][NextKeys]_vars

\* the conditions under which the gestures of a frame with input ptr act
ScaleEnabled(ptr) == ptr.f /\ ~ptr.d /\ ptr.down
OffsetEnabled(ptr) == ptr.d /\ ~ptr.f /\ ptr.down
XoffsetEnabled(ptr) == ptr.g /\ ptr.down

ScaleOf(e) == ParseOr(e.scale, 0)

\* a frame with input ptr runs the scale gesture on entry e
ScaleGestureOn(e, ptr) ==
    /\ ScaleEnabled(ptr) /\ ptr.dy # 0
    /\ e.state = "Active" /\ ScaleOf(e) > 0

\* C17 as stated: in a scale gesture on an Active entry with a positive
\* scale, moving the pointer down (dy > 0) increases the scale and moving it
\* up (dy < 0) decreases it
C17_DownIncreases ==
    [][\A pos \in Range(Flat(folders)) :
        ScaleGestureOn(Entry(folders, pos), last'.ptr) =>
            /\ last'.ptr.dy > 0 =>
                  ScaleOf(Entry(folders', pos)) > ScaleOf(Entry(folders, pos))
            /\ last'.ptr.dy < 0 =>
                  ScaleOf(Entry(folders', pos)) < ScaleOf(Entry(folders, pos))]_vars

\* C17 amended: in a scale gesture on an Active entry with a positive scale,
\* moving the pointer down (dy > 0) decreases the scale and moving it up
\* (dy < 0) increases it
C17_DownDecreases ==
    [][\A pos \in Range(Flat(folders)) :
        ScaleGestureOn(Entry(folders, pos), last'.ptr) =>
            /\ last'.ptr.dy > 0 =>
                  ScaleOf(Entry(folders', pos)) < ScaleOf(Entry(folders, pos))
            /\ last'.ptr.dy < 0 =>
                  ScaleOf(Entry(folders', pos)) > ScaleOf(Entry(folders, pos))]_vars

\* a scale gesture with the pointer moving up has raised the scale of an
\* Active entry above the 1.0 it had
C17_Witness ==
    /\ last.op \in {"gesture", "panel"}
    /\ ScaleEnabled(last.ptr) /\ last.ptr.dy < 0
    /\ \E e \in Entries(folders) : e.state = "Active" /\ ScaleOf(e) > Unit

----------------------------------------------------------------------------
(* SpecText: gestures on entries whose text fields the user has typed into. *)

TextPicks == {<<"p2">>}
TextDisk == {Some(TextGood)}
\* texts that are no number, typed into the scale and the offset field
TextInputs ==
    {[kind |-> "text", fi |-> 0, ei |-> 0, field |-> "scale", text |-> <<"x">>],
     [kind |-> "text", fi |-> 0, ei |-> 0, field |-> "offset", text |-> <<>>]}
TextPtrs ==
    {[Press EXCEPT !.f = TRUE, !.dy = 1],
     [Press EXCEPT !.d = TRUE, !.dy = -1],
     [Press EXCEPT !.f = TRUE, !.g = TRUE, !.dx = 1, !.dy = 1]}

NextText ==
    \/ OpenFolder(TextPicks)
    \/ ClickFile(TextDisk)
    \/ SecondaryClickFile
    \/ Settings(TextInputs)
    \/ GestureCap(TextPtrs, MaxKeys)

SpecText == Init /\ [][NextText]_vars

\* the text fields of entry e that the gestures of a frame with input ptr
\* target
Targets(ptr) ==
    (IF ScaleEnabled(ptr) /\ ptr.dy # 0 THEN {"scale"} ELSE {})
    \cup (IF OffsetEnabled(ptr) /\ ptr.dy # 0 THEN {"offset"} ELSE {})
    \cup (IF XoffsetEnabled(ptr) /\ ptr.dx # 0 THEN {"xoffset"} ELSE {})

\* FloatInput::parse gives None for the field of the entry
NoNumber(e, field) == ~IsSome(FloatInput_parse(e[field]))

\* C18: in a frame of gestures, a target field of an Active entry whose text
\* is no number keeps its text; if that holds of every field the frame's
\* gestures target, the entry is left as it was in every field, state Active
\* included; and the error log gets no message from a gesture frame
C18_UnparsableLeftAlone ==
    [][last'.op = "gesture" =>
        /\ \A pos \in Range(Flat(folders)) :
              Entry(folders, pos).state = "Active" =>
                /\ \A field \in Targets(last'.ptr) :
                      NoNumber(Entry(folders, pos), field) =>
                          Entry(folders', pos)[field] = Entry(folders, pos)[field]
                /\ ( /\ Targets(last'.ptr) # {}
                     /\ \A field \in Targets(last'.ptr) :
                           NoNumber(Entry(folders, pos), field) )
                      => Entry(folders', pos) = Entry(folders, pos)
        /\ errors' = errors]_vars

\* a scale gesture has run on an Active entry whose scale text is "x", and
\* the log is empty
C18_Witness ==
    /\ last.op = "gesture"
    /\ "scale" \in Targets(last.ptr)
    /\ errors = <<>>
    /\ \E e \in Entries(folders) : e.state = "Active" /\ e.scale.input = <<"x">>

----------------------------------------------------------------------------
(* SpecColor: the colours of the plotted entries, under the colour picker  *)
(* of the settings menu.                                                   *)

ColorPicks == {<<"p2">>}
ColorDisk == {Some(TextGood)}
\* colours the picker can write: opaque red, and black with alpha 0, which
\* is Color32::TRANSPARENT
PickerColors == {[a |-> 255, hue |-> 0], TRANSPARENT}

\* the user picks a colour in the Color menu of a plotted entry
PickColor(colors) ==
    \E c \in colors :
        /\ color_idx < MaxColors
        /\ Settings({[kind |-> "color", fi |-> 0, ei |-> 0, color |-> c]})

NextColor ==
    \/ OpenFolder(ColorPicks)
    \/ ClickFile(ColorDisk)
    \/ PickColor(PickerColors)

SpecColor == Init /\ [][NextColor]_vars

\* C19: no entry is given an automatic colour twice: among the pairs of
\* entry id and colour index given so far, each id occurs once
C19_ColoredOnce ==
    \A a, b \in assigned : a[1] = b[1] => a = b

\* the lines of a frame whose entry the loop gave a colour
ColoredLines(ls) == {k \in 1..Len(ls) : ls[k].colored}

----------------------------------------------------------------------------
(* SpecExport: Save Plot on sessions with entries of every state.          *)

ExportPicks == {<<"p2">>}
ExportDisk == {None, Some(TextGood)}

NextExport ==
    \/ OpenFolder(ExportPicks)
    \/ ClickFile(ExportDisk)
    \/ SecondaryClickFile
    \/ SavePlot

SpecExport == Init /\ [][NextExport]_vars

\* the ids of the entries that are Plotted or Active and have a colour
DrawnColored(fs) ==
    {e.id : e \in {e \in Entries(fs) : /\ e.state \in {"Plotted", "Active"}
                                       /\ e.color # TRANSPARENT}}

\* C21: a Save Plot that succeeds writes one series for each entry that is
\* Plotted or Active and has a colour, and for no other entry; and it leaves
\* the folders, the search phrase, the error log, the acceleration and the
\* copied options as they were
C21_ExportsDrawnEntries ==
    [][last'.op = "export" /\ last'.pre = "Ok" =>
        /\ IsSome(exported')
        /\ {Unwrap(exported')[k].id : k \in 1..Len(Unwrap(exported'))}
              = DrawnColored(folders)
        /\ Len(Unwrap(exported')) = Cardinality(DrawnColored(folders))
        /\ folders' = folders /\ search_phrase' = search_phrase
        /\ errors' = errors /\ acceleration' = acceleration
        /\ copied_csvoptions' = copied_csvoptions]_vars

----------------------------------------------------------------------------
(* SpecDelete: folders opened, listed and removed with their x button.     *)

DeletePicks == {<<"p1">>, <<"p1", "p3">>}
DeleteDisk == {Some(TextGood)}

NextDelete ==
    \/ OpenFolder(DeletePicks)
    \/ ClickFolderLabel
    \/ ClickFile(DeleteDisk)
    \/ ClickFolderX

SpecDelete == Init /\ [][NextDelete]_vars

\* the sequence fs without its element i
Without(fs, i) == SubSeq(fs, 1, i - 1) \o SubSeq(fs, i + 1, Len(fs))

C23_SessionFailuresLogged ==
    [][last'.op \in {"save", "load"} /\ last'.pre = "Err" =>
        /\ Len(last'.appended) = 1
        /\ errors' = RetainLast(Append(errors, last'.appended[1]))
        /\ folders' = folders
        /\ search_phrase' = search_phrase
        /\ plot_dims = plot_bounds => plot_dims' = plot_dims]_vars

----------------------------------------------------------------------------
(* SpecDialogs: the four dialogs, answered or cancelled.                   *)

\* the open folder dialog cancelled gives no folder
DialogPicks == {<<>>, <<"p2">>}
DialogDisk == {Some(TextGood)}

NextDialogs ==
    \/ OpenFolder(DialogPicks)
    \/ ClickFile(DialogDisk)
    \/ SaveSessionAs
    \/ LoadSessionFrom
    \/ SavePlot

SpecDialogs == Init /\ [][NextDialogs]_vars

\* the frame handled a dialog that the user cancelled
Cancelled(rec, added) ==
    \/ rec.op = "open" /\ added = 0
    \/ rec.op \in {"save", "load", "export"} /\ rec.pre = "Cancel"

\* C24: a frame whose dialog is cancelled leaves the folders with their
\* entries, the search phrase and (once the plot has reported its bounds)
\* the viewport bounds as they were, and appends at most one message, which
\* is a warning
C24_CancelIsNoOp ==
    [][Cancelled(last', id_counter' - id_counter) =>
        /\ folders' = folders
        /\ search_phrase' = search_phrase
        /\ plot_dims = plot_bounds => plot_dims' = plot_dims
        /\ Len(last'.appended) <= 1
        /\ \A k \in 1..Len(last'.appended) :
              last'.appended[k].level = "WARNING"]_vars

----------------------------------------------------------------------------
(* SpecSkip: ingestion under edited numbers of header and footer lines to  *)
(* skip.                                                                   *)

SkipPicks == {<<"p2">>}
SkipClickDisk == {Some(TextGood)}
SkipReloadDisk == {Some(TextGood), Some(TextExample3)}
SkipOptions ==
    {[CSVFile_default EXCEPT !.skip_header = k, !.skip_footer = k] :
        k \in 0..MaxSkip}

NextSkip ==
    \/ OpenFolder(SkipPicks)
    \/ ClickFile(SkipClickDisk)
    \/ EditOptions(SkipOptions)
    \/ ReloadCsv(SkipReloadDisk)

SpecSkip == Init /\ [][NextSkip]_vars

\* entry e with other numbers of lines to skip
WithSkip(e, h, f) ==
    [e EXCEPT !.data_file.skip_header = h, !.data_file.skip_footer = f]

----------------------------------------------------------------------------
(* SpecData: clicks, secondary clicks, search phrases, reloads and         *)
(* gestures on freshly scanned folders.                                    *)

DataPicks == {<<"p2">>}
DataDisk == {None, Some(TextGood)}
DataReloadDisk == {None}
DataPhrases == {<<>>, <<"x">>}
DataPtrs == {[Press EXCEPT !.f = TRUE, !.dy = 1]}

NextData ==
    \/ OpenFolder(DataPicks)
    \/ ClickFile(DataDisk)
    \/ SecondaryClickFile
    \/ EditFilterTo(DataPhrases)
    \/ ReloadCsv(DataReloadDisk)
    \/ GestureCap(DataPtrs, MaxKeys)

SpecData == Init /\ [][NextData]_vars

----------------------------------------------------------------------------
(* SpecLoaded: clicks on the entries of a session restored from a file,    *)
(* which can hold entries of any state with or without data.               *)

FileEntryStates == {"Idle", "Plotted", "Active", "PreviouslyPlotted", "NeedsConfig"}
LoadedData == {<<>>, << <<Unit, 2 * Unit>> >>}
LoadedDisk == {None, Some(TextGood), Some(TextHeaderOnly)}

\* the folders of a session file: one folder of two entries
LoadedFolders ==
    {<< [path |-> "p2",
         files |-> [i \in 1..2 |->
                      [get_file_entries(DirNames("p2"), <<ScanFile, ScanFile>>, 0)[i]
                          EXCEPT !.state = st[i], !.data_file.data = d[i]]],
         expanded |-> TRUE, to_be_deleted |-> FALSE] >> :
        st \in [1..2 -> FileEntryStates], d \in [1..2 -> LoadedData]}

InitLoaded ==
    /\ folders \in LoadedFolders
    /\ search_phrase = InitPhrase
    /\ plot_dims = PlotBounds
    /\ errors = <<>>
    /\ acceleration = None
    /\ copied_csvoptions = None
    /\ color_idx = 0
    /\ id_counter = 2
    /\ listed = {}
    /\ lines = <<>>
    /\ allow_drag = TRUE
    /\ plot_bounds = PlotBounds
    /\ session_file = None
    /\ assigned = {}
    /\ exported = None
    /\ last = NoLast

NextLoaded ==
    \/ ClickFile(LoadedDisk)
    \/ SecondaryClickFile

SpecLoaded == InitLoaded /\ [][NextLoaded]_vars

\* C27: for the entries of every state, with and without data, and every
\* file on disk, the click handling written inline in list_files_ui gives
\* the entry and the log that FileEntry::clicked gives, and the inline
\* secondary click the entry that FileEntry::secondary_clicked gives; and
\* the state and data of the entry clicked in a frame are the ones the two
\* methods give
C27_InlineEqualsMethods ==
    [][/\ \A fi \in 1..Len(folders) : \A ei \in 1..Len(folders[fi].files) :
            /\ \A file \in LoadedDisk :
                  InlineClicked(folders[fi], folders[fi].files[ei], file, errors)
                    = clicked(folders[fi].files[ei], file, folders[fi].path,
                              errors)
            /\ InlineSecondaryClicked(folders[fi].files[ei])
                  = secondary_clicked(folders[fi].files[ei])
       /\ last'.op = "click" =>
             \E r \in {clicked(folders[last'.fi].files[last'.ei], last'.file,
                               folders[last'.fi].path, errors).entry} :
                /\ folders'[last'.fi].files[last'.ei].state = r.state
                /\ folders'[last'.fi].files[last'.ei].data_file = r.data_file
       /\ last'.op = "secondary" =>
             \E r \in {secondary_clicked(folders[last'.fi].files[last'.ei])} :
                /\ folders'[last'.fi].files[last'.ei].state = r.state
                /\ folders'[last'.fi].files[last'.ei].data_file = r.data_file]_vars

\* a click on an entry that was NeedsConfig and held data has made it Idle,
\* with the data
C27_Witness ==
    /\ last.op = "click" /\ last.pre = "NeedsConfig"
    /\ folders[last.fi].files[last.ei].state = "Idle"
    /\ folders[last.fi].files[last.ei].data_file.data # <<>>

\* what a click may not change of an entry that has data
Ingested(e) == <<e.data_file, e.scale, e.offset, e.xoffset, e.color>>

\* C28: a frame with a primary click, a secondary click or a change of the
\* search phrase leaves the data, the ingestion parameters, the three text
\* fields and the colour of every entry that has data as they were, and a
\* click on such an entry reads no file and logs nothing
C28_DataReadOnce ==
    [][last'.op \in {"click", "secondary", "filter"} =>
        /\ \A pos \in Range(Flat(folders)) :
              Entry(folders, pos).data_file.data # <<>> =>
                  Ingested(Entry(folders', pos)) = Ingested(Entry(folders, pos))
        /\ ( /\ last'.op = "click"
             /\ folders[last'.fi].files[last'.ei].data_file.data # <<>> )
              => last'.got = None /\ errors' = errors]_vars

\* an entry that was toggled off has been clicked on again: it is Plotted
\* with its data, and no file was read
C28_Witness ==
    /\ last.op = "click" /\ last.pre = "PreviouslyPlotted"
    /\ last.got = None
    /\ folders[last.fi].files[last.ei].state = "Plotted"
    /\ folders[last.fi].files[last.ei].data_file.data # <<>>

\* the frame is the second of two consecutive primary clicks on an entry
\* that was NeedsConfig before the first
SecondClick(first, second) ==
    /\ first.op = "click" /\ first.pre = "NeedsConfig"
    /\ second.op = "click"
    /\ second.fi = first.fi /\ second.ei = first.ei

\* the file has given the entry at least one row: the data it holds, or the
\* data the click of the frame reads
YieldsRow(e, second) ==
    IF Reads(e) THEN IsSome(second.got) /\ IsSome(second.got[1])
    ELSE e.data_file.data # <<>>

-----------------------------------------------------------------------------
(* SpecEvent: SetActive events run on a session restored from a file, whose *)
(* entries can have any state and ids that repeat.                          *)

\* SetActive::new
SetActive_new(file_id) == [file_id |-> file_id]

\* the places of the entries, and the order in which the two loops of
\* SetActive::apply visit them
Places(fs) == {p \in (1..Len(fs)) \X (1..MaxFiles) : p[2] <= Len(fs[p[1]].files)}
VisitedBefore(p, q) == p[1] < q[1] \/ (p[1] = q[1] /\ p[2] < q[2])

\* SetActive::apply, were it to go on after the first entry with the id
SetActive_apply_SetsAll(self, app) ==
    LET hits == {p \in Places(app.folders) :
                    app.folders[p[1]].files[p[2]].id = self.file_id} IN
    IF hits = {}
    THEN [app |-> app,
          errors |-> <<Msg("ERROR", "file with id not found", self.file_id, 0)>>]
    ELSE [app |-> [app EXCEPT !.folders =
                     [fi \in 1..Len(app.folders) |->
                        [app.folders[fi] EXCEPT !.files =
                           [ei \in 1..Len(app.folders[fi].files) |->
                              IF <<fi, ei>> \in hits
                              THEN set_active(app.folders[fi].files[ei])
                              ELSE app.folders[fi].files[ei]]]]],
          errors |-> <<>>]

\* SetActive::apply: the first entry with the id becomes Active and nothing is
\* returned; without one, the message is returned
SetActive_apply(self, app) ==
    LET hits == {p \in Places(app.folders) :
                    app.folders[p[1]].files[p[2]].id = self.file_id} IN
    IF hits = {}
    THEN [app |-> app,
          errors |-> <<Msg("ERROR", "file with id not found", self.file_id, 0)>>]
    ELSE [app |-> [app EXCEPT !.folders =
                     [fi \in 1..Len(app.folders) |->
                        [app.folders[fi] EXCEPT !.files =
                           [ei \in 1..Len(app.folders[fi].files) |->
                              IF /\ <<fi, ei>> \in hits
                                 /\ \A q \in hits : ~VisitedBefore(q, <<fi, ei>>)
                              THEN set_active(app.folders[fi].files[ei])
                              ELSE app.folders[fi].files[ei]]]]],
          errors |-> <<>>]

\* AppEvent::run
AppEvent_run(self, app) ==
    CHOOSE v \in {[r.app EXCEPT !.errors = r.app.errors \o r.errors] :
                    r \in {SetActive_apply(self, app)}} : TRUE

\* the ids of a session file and of the events
EventIds == 1..MaxFiles
EventFileIds == 1..(MaxFiles + 1)

\* the folders of a session file: a folder of one entry and one of two
EventFolders ==
    {[k \in 1..2 |->
        [path |-> <<"p1", "p2">>[k],
         files |-> [i \in 1..k |->
                      [get_file_entries(DirNames(<<"p1", "p2">>[k]),
                                        [j \in 1..k |-> ScanFile], 0)[i]
                          EXCEPT !.state = st[k][i], !.id = id[k][i]]],
         expanded |-> TRUE, to_be_deleted |-> FALSE]] :
        st \in [1..2 -> [1..2 -> FileEntryStates]],
        id \in [1..2 -> [1..2 -> EventIds]]}

InitEvent ==
    /\ folders \in EventFolders
    /\ search_phrase = InitPhrase
    /\ plot_dims = PlotBounds
    /\ errors = <<>>
    /\ acceleration = None
    /\ copied_csvoptions = None
    /\ color_idx = 0
    /\ id_counter = MaxFiles
    /\ listed = {}
    /\ lines = <<>>
    /\ allow_drag = TRUE
    /\ plot_bounds = PlotBounds
    /\ session_file = None
    /\ assigned = {}
    /\ exported = None
    /\ last = NoLast

\* a SetActive event with one of ids is run
RunSetActive(ids) ==
    \E file_id \in ids :
        \E r \in {AppEvent_run(SetActive_new(file_id), App)} :
            /\ Len(r.errors) <= MaxLog
            /\ folders' = r.folders
            /\ errors' = r.errors
            /\ search_phrase' = r.search_phrase
            /\ plot_dims' = r.plot_dims
            /\ acceleration' = r.acceleration
            /\ copied_csvoptions' = r.copied_csvoptions
            /\ last' = [NoLast EXCEPT !.op = "event", !.n = file_id]
            /\ UNCHANGED <<color_idx, id_counter, listed, lines, allow_drag,
                           plot_bounds, session_file, assigned, exported>>

NextEvent == RunSetActive(EventFileIds)

SpecEvent == InitEvent /\ [][NextEvent]_vars

\* the entry at place p is the first with the id, in folder order and then
\* file order
FirstWithId(fs, id, p) ==
    /\ fs[p[1]].files[p[2]].id = id
    /\ \A q \in Places(fs) :
          VisitedBefore(q, p) => fs[q[1]].files[q[2]].id # id

\* C30: a SetActive event whose id no entry has changes no entry and appends
\* exactly one message, an error, to the log; an event whose id an entry has
\* appends nothing and makes the first entry with the id Active whatever its
\* state, every other entry and every other field of that one staying
C30_SetActiveFirstMatch ==
    [][last'.op = "event" =>
        IF \A p \in Places(folders) :
               folders[p[1]].files[p[2]].id # last'.n
        THEN /\ folders' = folders
             /\ Len(errors') = Len(errors) + 1
             /\ SubSeq(errors', 1, Len(errors)) = errors
             /\ errors'[Len(errors')].level = "ERROR"
        ELSE /\ errors' = errors
             /\ Places(folders') = Places(folders)
             /\ \A p \in Places(folders) :
                   folders'[p[1]].files[p[2]] =
                       IF FirstWithId(folders, last'.n, p)
                       THEN [folders[p[1]].files[p[2]] EXCEPT !.state = "Active"]
                       ELSE folders[p[1]].files[p[2]]
             /\ \A fi \in 1..Len(folders) :
                   [folders'[fi] EXCEPT !.files = <<>>]
                       = [folders[fi] EXCEPT !.files = <<>>]]_vars

\* an event has made the first of two entries with its id Active and left
\* the second, after an event with an unknown id was logged
C30_Witness ==
    /\ last.op = "event"
    /\ Len(errors) = 1 /\ errors[1].level = "ERROR"
    /\ \E p, q \in Places(folders) :
          /\ FirstWithId(folders, last.n, p)
          /\ VisitedBefore(p, q)
          /\ folders[q[1]].files[q[2]].id = last.n
          /\ folders[p[1]].files[p[2]].state = "Active"
          /\ folders[q[1]].files[q[2]].state = "NeedsConfig"
====
